---- MODULE Spec2Model ----
(***************************************************************************)
(* Superpixel-to-body resolution and cross-stack overlap matching of the   *)
(* emdata package: remap-table loading (raveler.go), tile label decoding   *)
(* and nearest-body search (tiles.go), overlap voting (raveler.go).        *)
(***************************************************************************)
EXTENDS Integers, Sequences, FiniteSets, TLC

VARIABLES
    labels,        \* disk: label painted at each raster position of the tile files
    format,        \* disk: superpixel-format of tiles/metadata.txt
    tileAt,        \* disk: the tile files present, as <<stack root, relative path>>
    superpixelCache, \* tiles.go: var superpixelCache, accessed time by file name
    files,         \* disk: the two remap text files of the stack directory
    mapLoaded,     \* Stack.mapLoaded
    loads,         \* how many times ReadTxtMaps has read the stack directory
    spToBodyMap,   \* Stack.spToBodyMap
    rd,            \* the ReadTxtMaps call in flight: its goroutines, maps and channel
    stack1,        \* overlap matching: the composed map of the source stack
    stack2,        \* overlap matching: the composed map of the target stack
    bodySet,       \* overlap matching: the requested bodies
    spBounds,      \* disk: the superpixel bounds files of the two stacks
    results,       \* what the OverlapAnalysis calls made so far returned
    call,          \* the operation in progress / last called, with its arguments
    ret            \* what the operation returned

vars == <<labels, format, tileAt, superpixelCache, files, mapLoaded, loads, spToBodyMap,
          rd, stack1, stack2, bodySet, spBounds, results, call, ret>>

tileVars == <<labels, format, tileAt, superpixelCache>>

overlapVars == <<stack1, stack2, bodySet, spBounds, results>>

(***************************************************************************)
(* Bounds of the model and program constants.                              *)
(***************************************************************************)
NumPaint == 4          \* how many raster positions of PaintList carry a label
TileSize == 1024       \* tiles.go: const TileSize
checkRadius == 6       \* GetNearestBodyOfLocation: checkRadius := 6

\* Below, CHOOSE out \in {e : x \in {v}} : TRUE is e with x standing for the
\* value of v: an assignment to a local, `x := v`, followed by the statements
\* e that read x.

(***************************************************************************)
(* data.go: coordinate helpers and the ring enumeration.                   *)
(***************************************************************************)
MaxCoord(i, j) == IF i >= j THEN i ELSE j

MinCoord(i, j) == IF i <= j THEN i ELSE j

\* make([]Point2d, r*8) allocates r*8 zero points; the segments are appended
\* after them.
PixelsAtRadius(p, radius, maxX, maxY) ==
    IF radius = 0 THEN <<p>>
    ELSE
      LET r == radius
          x == p[1]
          y == p[2]
          made == [i \in 1..(r * 8) |-> <<0, 0>>]
          minXCoord == MaxCoord(0, x - r)
          maxXCoord == MinCoord(maxX, x + r)
          minYCoord == MaxCoord(0, y - r)
          maxYCoord == MinCoord(maxY, y + r)
          hline(yy) == [i \in 1..(maxXCoord - minXCoord + 1) |-> <<minXCoord + i - 1, yy>>]
          vline(xx) == [i \in 1..(maxYCoord - minYCoord + 1) |-> <<xx, minYCoord + i - 1>>]
          top    == IF y - r >= 0 THEN hline(y - r) ELSE <<>>
          bottom == IF y + r <= maxYCoord THEN hline(y + r) ELSE <<>>
          left   == IF x - r >= 0 THEN vline(x - r) ELSE <<>>
          right  == IF x + r <= maxXCoord THEN vline(x + r) ELSE <<>>
      IN made \o top \o bottom \o left \o right

\* Point3d.VoxelsAtRadius: the same enumeration in the XY plane of a Point3d;
\* the allocated zero voxels are (0,0,0), the ring voxels keep p's Z.
VoxelsAtRadius(p, radius, maxX, maxY) ==
    IF radius = 0 THEN <<p>>
    ELSE
      LET r == radius
          x == p[1]
          y == p[2]
          z == p[3]
          made == [i \in 1..(r * 8) |-> <<0, 0, 0>>]
          minXCoord == MaxCoord(0, x - r)
          maxXCoord == MinCoord(maxX, x + r)
          minYCoord == MaxCoord(0, y - r)
          maxYCoord == MinCoord(maxY, y + r)
          hline(yy) == [i \in 1..(maxXCoord - minXCoord + 1) |-> <<minXCoord + i - 1, yy, z>>]
          vline(xx) == [i \in 1..(maxYCoord - minYCoord + 1) |-> <<xx, minYCoord + i - 1, z>>]
          top    == IF y - r >= 0 THEN hline(y - r) ELSE <<>>
          bottom == IF y + r <= maxYCoord THEN hline(y + r) ELSE <<>>
          left   == IF x - r >= 0 THEN vline(x - r) ELSE <<>>
          right  == IF x + r <= maxXCoord THEN vline(x + r) ELSE <<>>
      IN made \o top \o bottom \o left \o right

\* Bounds3d.Include
Include(bounds, p) ==
    /\ ~(bounds.MinPt[1] > p[1] \/ bounds.MaxPt[1] < p[1])
    /\ ~(bounds.MinPt[2] > p[2] \/ bounds.MaxPt[2] < p[2])
    /\ ~(bounds.MinPt[3] > p[3] \/ bounds.MaxPt[3] < p[3])

(***************************************************************************)
(* raveler.go: the remap text tables.  A file is a sequence of lines; a    *)
(* line is [c, f, nl]: the class of its first character ("digit", "space", *)
(* "hash", "newline" for an empty line, "other"), the integers on it, and  *)
(* whether it ends with '\n' (only the last line of a file may not).       *)
(***************************************************************************)
DataLine(fields) == [c |-> "digit", f |-> fields, nl |-> TRUE]

Put(m, k, v) == [x \in (DOMAIN m) \cup {k} |-> IF x = k THEN v ELSE m[x]]

EmptyMap == [x \in {} |-> 0]

\* One turn of the `for` loop of a loader goroutine: ReadString('\n') fails at
\* end of file also when it has read an unterminated rest; a line starting
\* with ' ' or '#' is skipped; any other line goes to Sscanf with `need` verbs.
LineOutcome(line, need) ==
    IF ~line.nl THEN "eof"
    ELSE IF line.c = "space" \/ line.c = "hash" THEN "skip"
    ELSE IF line.c = "digit" /\ Len(line.f) >= need THEN "data"
    ELSE "fatal"

LineKey(line, need) == IF need = 3 THEN <<line.f[1], line.f[2]>> ELSE line.f[1]

LineValue(line, need) == line.f[need]

RECURSIVE LoadTable(_, _, _, _)
LoadTable(file, need, i, tab) ==
    IF i > Len(file) THEN [fatal |-> FALSE, tab |-> tab]
    ELSE LET o == LineOutcome(file[i], need)
         IN CASE o = "eof"   -> [fatal |-> FALSE, tab |-> tab]
              [] o = "skip"  -> LoadTable(file, need, i + 1, tab)
              [] o = "fatal" -> [fatal |-> TRUE, tab |-> tab]
              [] o = "data"  ->
                   CHOOSE out \in
                       {LoadTable(file, need, i + 1, t) :
                           t \in {Put(tab, LineKey(file[i], need), LineValue(file[i], need))}}
                       : TRUE

\* A composition that leaves the segment id where the segment has no row.
ComposeMaps_KeepSegment(spToSegment, segmentToBodyMap) ==
    [sp \in DOMAIN spToSegment |->
        IF spToSegment[sp] \in DOMAIN segmentToBodyMap
        THEN segmentToBodyMap[spToSegment[sp]] ELSE spToSegment[sp]]

\* for superpixel, segment := range spToBodyMap {
\*     spToBodyMap[superpixel] = segmentToBodyMap[segment] }
ComposeMaps(spToSegment, segmentToBodyMap) ==
    [sp \in DOMAIN spToSegment |->
        IF spToSegment[sp] \in DOMAIN segmentToBodyMap
        THEN segmentToBodyMap[spToSegment[sp]] ELSE 0]

\* ReadTxtMaps(stackPath), as one step: both loaders, the join, the composition.
ReadTxtMaps(fs) ==
    CHOOSE out \in
        {IF a.fatal \/ b.fatal
         THEN [fatal |-> TRUE, map |-> EmptyMap]
         ELSE [fatal |-> FALSE, map |-> ComposeMaps(a.tab, b.tab)] :
            a \in {LoadTable(fs.superpixelToSegment, 3, 1, EmptyMap)},
            b \in {LoadTable(fs.segmentToBody, 2, 1, EmptyMap)}}
        : TRUE

\* Stack.ReadTxtMaps followed by stack.spToBodyMap: the map a lookup reads, and
\* whether loading it ended the program.
LoadedMap(loaded, m, fs) ==
    IF loaded THEN [fatal |-> FALSE, map |-> m] ELSE ReadTxtMaps(fs)

\* Stack.SuperpixelToBody, on the map LoadedMap gives; a missing key reads as
\* Go's zero value.
SuperpixelToBody(m, s) == IF s \in DOMAIN m THEN m[s] ELSE 0

(***************************************************************************)
(* raveler.go / tiles.go: tiles and label decoding.                        *)
(***************************************************************************)
SuperpixelNone == 0
Superpixel16Bits == 1
Superpixel24Bits == 2

\* The colour image.Decode gives for a pixel whose file stores label L.
EncodeGray16(L) == [Y |-> L % 65536]

EncodeNRGBA(L) == [R |-> L % 256, G |-> (L \div 256) % 256,
                   B |-> (L \div 65536) % 256, A |-> 255]

\* The decoded raster of a tile file that stores lab[p] at each painted
\* position p, in the colour model of the stack's format.
TileImage(lab, fmt) ==
    [model |-> IF fmt = Superpixel24Bits THEN "NRGBA" ELSE "Gray16",
     maxY  |-> TileSize,
     lab   |-> lab]

\* image.Image.At: a point without a stored pixel has the zero colour.
At(img, x, y) ==
    IF <<x, y>> \in DOMAIN img.lab
    THEN IF img.model = "NRGBA" THEN EncodeNRGBA(img.lab[<<x, y>>])
         ELSE EncodeGray16(img.lab[<<x, y>>])
    ELSE IF img.model = "NRGBA" THEN [R |-> 0, G |-> 0, B |-> 0, A |-> 0]
    ELSE [Y |-> 0]

\* A decoder that shifts by seven bits where the code shifts by eight.
GetSuperpixelId_ShiftSeven(superpixels, x, y, fmt) ==
    IF fmt = Superpixel24Bits
    THEN LET v == At(superpixels, x, y)
         IN (v.B * 128 + v.G) * 128 + v.R
    ELSE At(superpixels, x, y).Y

\* A decoder that takes the red byte of a 24-bit label as its high byte.
GetSuperpixelId_RedHigh(superpixels, x, y, fmt) ==
    IF fmt = Superpixel24Bits
    THEN LET v == At(superpixels, x, y)
         IN (v.R * 256 + v.G) * 256 + v.B
    ELSE At(superpixels, x, y).Y

GetSuperpixelId(superpixels, x, y, fmt) ==
    IF fmt = Superpixel24Bits
    THEN LET v == At(superpixels, x, y)
         IN (v.B * 256 + v.G) * 256 + v.R
    ELSE At(superpixels, x, y).Y

\* A tile point whose row is left unflipped by one: without the "- 1".
TilePt_HeightLess(p, maxY) ==
    LET col == p[1] \div TileSize
        row == p[2] \div TileSize
    IN [tilePt |-> <<p[1] - col * TileSize, maxY - (p[2] - row * TileSize), p[3]>>,
        row |-> row, col |-> col]

\* GetSuperpixelTilePt: the tile's row and column and the point within the
\* tile, for a raster whose Bounds().Max.Y is maxY.
TilePt(p, maxY) ==
    LET col == p[1] \div TileSize
        row == p[2] \div TileSize
        tileX == p[1] - col * TileSize
        tileY == maxY - (p[2] - row * TileSize) - 1
    IN [tilePt |-> <<tileX, tileY, p[3]>>, row |-> row, col |-> col]

\* Every tile file of the stack stores `lab`.
GetSuperpixelTilePt(lab, fmt, p) ==
    LET superpixels == TileImage(lab, fmt)
        t == TilePt(p, superpixels.maxY)
    IN [superpixels |-> superpixels, tilePt |-> t.tilePt, row |-> t.row, col |-> t.col]

\* TilesMetadata: width and height give MaxPt - 1; zmin, zmax as written.
StackBounds == [MinPt |-> <<0, 0, 0>>, MaxPt |-> <<2 * TileSize - 1, TileSize - 1, 1>>]

\* A resolution that looks every decoded label up, label 0 too.
GetBodyOfLocation_ZeroLookedUp(lab, fmt, m, p) ==
    IF ~Include(StackBounds, p)
    THEN [fatal |-> TRUE, bodyId |-> 0, superpixel |-> <<0, 0>>, lookup |-> FALSE]
    ELSE LET t == GetSuperpixelTilePt(lab, fmt, p)
             label == GetSuperpixelId(t.superpixels, t.tilePt[1], t.tilePt[2], fmt)
         IN [fatal |-> FALSE, bodyId |-> SuperpixelToBody(m, <<p[3], label>>),
             superpixel |-> <<p[3], label>>, lookup |-> TRUE]

\* GetBodyOfLocation(stack, pt); `m` is the map a lookup would read.
GetBodyOfLocation(lab, fmt, m, p) ==
    IF ~Include(StackBounds, p)
    THEN [fatal |-> TRUE, bodyId |-> 0, superpixel |-> <<0, 0>>, lookup |-> FALSE]
    ELSE LET t == GetSuperpixelTilePt(lab, fmt, p)
             label == GetSuperpixelId(t.superpixels, t.tilePt[1], t.tilePt[2], fmt)
         IN IF label = 0
            THEN [fatal |-> FALSE, bodyId |-> 0, superpixel |-> <<p[3], label>>,
                  lookup |-> FALSE]
            ELSE [fatal |-> FALSE, bodyId |-> SuperpixelToBody(m, <<p[3], label>>),
                  superpixel |-> <<p[3], label>>, lookup |-> TRUE]

\* Raster positions that may carry a nonzero label; every other pixel is 0.
PaintList == << <<10, 10>>, <<11, 10>>, <<0, 0>>, <<10, 12>>, <<1, 1>>,
                <<15, 15>>, <<16, 10>>, <<1023, 1020>> >>

PaintPos == {PaintList[i] : i \in 1..MinCoord(NumPaint, Len(PaintList))}

Labels == {0, 1, 258}

\* Stack points: raster (10,10) of tile column 0; the same of column 1 on
\* slice 1; raster (1,1); raster (1023,1020); a point above zmax.
QueryPts == { <<10, 1013, 0>>, <<1034, 1013, 1>>, <<1, 1022, 0>>,
              <<1023, 3, 0>>, <<10, 1013, 2>> }

\* The pixels GetNearestBodyOfLocation visits, in order: for radius 0..5 the
\* voxels of tilePt.VoxelsAtRadius(radius, TileSize, TileSize).
RECURSIVE ScanFrom(_, _)
ScanFrom(tilePt, radius) ==
    IF radius >= checkRadius THEN <<>>
    ELSE (CHOOSE out \in
              {[i \in 1..Len(vs) |-> [radius |-> radius, voxel |-> vs[i]]] :
                  vs \in {VoxelsAtRadius(tilePt, radius, TileSize, TileSize)}}
              : TRUE)
         \o ScanFrom(tilePt, radius + 1)

\* A scan with each run of consecutive visits to one voxel at one radius kept
\* once.  The loop body, run again on the voxel it has just visited, writes
\* the values it wrote the first time (nextBestRadius > radius is then false),
\* so the locals after the run are those after its first visit.
FirstOfRuns(s) ==
    SelectSeq([i \in 1..Len(s) |-> [i |-> i, e |-> s[i]]],
              LAMBDA x : x.i = 1 \/ x.e # s[x.i - 1])

CollapseRuns(scan) ==
    CHOOSE out \in
        {[k \in 1..Len(first) |-> first[k].e] :
            first \in {CHOOSE f \in {FirstOfRuns(s) : s \in {scan}} : TRUE}}
        : TRUE

\* The collapsed scan, tabulated for the tile points of QueryPts.
ScanTable ==
    [tp \in {TilePt(p, TileSize).tilePt : p \in QueryPts} |-> CollapseRuns(ScanFrom(tp, 0))]

Scan(tilePt) ==
    IF tilePt \in DOMAIN ScanTable THEN ScanTable[tilePt]
    ELSE CollapseRuns(ScanFrom(tilePt, 0))

\* The body of the inner loop for one voxel; st holds the function's locals.
NearestVisit(st, e, img, fmt, m, slice, excludeBodies, avoidBodies) ==
    LET spid == GetSuperpixelId(img, e.voxel[1], e.voxel[2], fmt)
    IN IF spid = 0 THEN st
       ELSE LET body == SuperpixelToBody(m, <<slice, spid>>)
                seen == [st EXCEPT !.label = spid, !.bodyId = body, !.lookup = TRUE]
            IN IF body \in excludeBodies THEN seen
               ELSE LET best == IF seen.nextBestRadius > e.radius
                                THEN [seen EXCEPT !.nextBestSuperpixel = spid,
                                                  !.nextBestRadius = e.radius,
                                                  !.finalLocation = e.voxel]
                                ELSE seen
                    IN IF body \in avoidBodies THEN best
                       ELSE [best EXCEPT !.returned = TRUE, !.radius = e.radius,
                                          !.voxel = e.voxel]

\* The two nested `for` loops over scan[i..], stopping at the `return`.
RECURSIVE NearestLoop(_, _, _, _, _, _, _, _, _)
NearestLoop(scan, i, st, img, fmt, m, slice, excludeBodies, avoidBodies) ==
    IF i > Len(scan) \/ st.returned THEN st
    ELSE CHOOSE out \in
             {NearestLoop(scan, i + 1, next, img, fmt, m, slice, excludeBodies, avoidBodies) :
                 next \in {NearestVisit(st, scan[i], img, fmt, m, slice, excludeBodies,
                                        avoidBodies)}}
             : TRUE

\* The visits of the loops to pixels the tile file stores a label for: a pixel
\* it stores none for decodes to 0, and the loop body does nothing for it.
PaintedScan(lab, fmt, p) ==
    SelectSeq(Scan(GetSuperpixelTilePt(lab, fmt, p).tilePt),
              LAMBDA e : <<e.voxel[1], e.voxel[2]>> \in DOMAIN lab)

\* The visits on which GetSuperpixelId was called when the loops ended with
\* locals st: those up to the voxel of the `return`, or all of them.
ReadsUntil(p, st) ==
    LET scan == Scan(TilePt(p, TileSize).tilePt)
        stop == [radius |-> st.radius, voxel |-> st.voxel]
        last == IF st.returned
                THEN CHOOSE i \in 1..Len(scan) :
                        scan[i] = stop /\ \A j \in 1..(i - 1) : scan[j] # stop
                ELSE Len(scan)
    IN {scan[i] : i \in 1..last}

\* GetNearestBodyOfLocation(stack, pt, excludeBodies, avoidBodies).
GetNearestBodyOfLocation(lab, fmt, m, p, excludeBodies, avoidBodies) ==
    IF ~Include(StackBounds, p)
    THEN [fatal |-> TRUE, bodyId |-> 0, superpixel |-> <<0, 0>>, radius |-> 0,
          finalLocation |-> <<0, 0, 0>>, lookup |-> FALSE, reads |-> {}]
    ELSE
      LET st0 == [label |-> 0, bodyId |-> 0, lookup |-> FALSE,
                  nextBestRadius |-> checkRadius, nextBestSuperpixel |-> 0,
                  finalLocation |-> <<0, 0, 0>>, radius |-> 0, returned |-> FALSE,
                  voxel |-> <<0, 0, 0>>]
      IN
      CHOOSE out \in
        {IF st.returned
         THEN [fatal |-> FALSE, bodyId |-> st.bodyId, superpixel |-> <<p[3], st.label>>,
               radius |-> st.radius, finalLocation |-> st.finalLocation,
               lookup |-> TRUE, reads |-> ReadsUntil(p, st)]
         ELSE IF st.label = 0
         THEN [fatal |-> FALSE, bodyId |-> 0, superpixel |-> <<p[3], 0>>,
               radius |-> checkRadius, finalLocation |-> st.finalLocation,
               lookup |-> FALSE, reads |-> ReadsUntil(p, st)]
         ELSE [fatal |-> FALSE,
               bodyId |-> SuperpixelToBody(m, <<p[3], st.nextBestSuperpixel>>),
               superpixel |-> <<p[3], st.nextBestSuperpixel>>,
               radius |-> st.nextBestRadius, finalLocation |-> st.finalLocation,
               lookup |-> TRUE, reads |-> ReadsUntil(p, st)] :
            st \in {CHOOSE end \in
                       {NearestLoop(scan, 1, st0, TileImage(lab, fmt), fmt, m, p[3],
                                    excludeBodies, avoidBodies) :
                           scan \in {PaintedScan(lab, fmt, p)}}
                       : TRUE}}
        : TRUE

(***************************************************************************)
(* tiles.go: tile file names, the tile cache and ReadSuperpixelTile.       *)
(***************************************************************************)
maxItems == 10         \* Cache(superpixelTile{}, 10)

\* fmt's %03d of a number that is not negative: at least three digits.
Sprintf03d(n) ==
    IF n < 10 THEN "00" \o ToString(n)
    ELSE IF n < 100 THEN "0" \o ToString(n)
    ELSE ToString(n)

\* A path that takes slice 1000 for the last slice of the flat directory.
TileFilename_FlatThrough1000(row, col, slice) ==
    IF slice > 1000
    THEN "tiles/" \o ToString(TileSize) \o "/0/" \o ToString(row) \o "/" \o ToString(col)
         \o "/s/" \o ToString((slice \div 1000) * 1000) \o "/" \o ToString(slice) \o ".png"
    ELSE "tiles/" \o ToString(TileSize) \o "/0/" \o ToString(row) \o "/" \o ToString(col)
         \o "/s/" \o Sprintf03d(slice) \o ".png"

TileFilename(row, col, slice) ==
    IF slice >= 1000
    THEN "tiles/" \o ToString(TileSize) \o "/0/" \o ToString(row) \o "/" \o ToString(col)
         \o "/s/" \o ToString((slice \div 1000) * 1000) \o "/" \o ToString(slice) \o ".png"
    ELSE "tiles/" \o ToString(TileSize) \o "/0/" \o ToString(row) \o "/" \o ToString(col)
         \o "/s/" \o Sprintf03d(slice) \o ".png"

\* Cache(cacheType, maxSize): dataMap gives each key its `accessed` time.
Cache(maxSize) == [maxItems |-> maxSize, dataMap |-> EmptyMap]

\* time.Now() of a call on the cache, as a tick: later than every time the
\* cache has recorded.  The code only compares recorded times.
Now(cache) ==
    IF DOMAIN cache.dataMap = {} THEN 1
    ELSE 1 + (CHOOSE t \in {cache.dataMap[k] : k \in DOMAIN cache.dataMap} :
                 \A k \in DOMAIN cache.dataMap : cache.dataMap[k] <= t)

\* A Retrieve that leaves the entry's time as it is.
Retrieve_TimeKept(cache, key) ==
    [found |-> key \in DOMAIN cache.dataMap, cache |-> cache]

\* cacheList.Retrieve: a hit rewrites the entry with the present time.
Retrieve(cache, key) ==
    [found |-> key \in DOMAIN cache.dataMap,
     cache |-> IF key \in DOMAIN cache.dataMap
               THEN [cache EXCEPT !.dataMap = Put(cache.dataMap, key, Now(cache))]
               ELSE cache]

\* The key the loop of Store ends with: an entry replaces the candidate only
\* when its time is Before the candidate's, so with times all different the
\* one entry of least time is left whatever the order of the range.
OldestKey(dataMap) ==
    CHOOSE k \in DOMAIN dataMap : \A j \in DOMAIN dataMap : dataMap[k] <= dataMap[j]

\* A Store that deletes nothing.
Store_NoDelete(cache, key) ==
    [cache EXCEPT !.dataMap = Put(cache.dataMap, key, Now(cache))]

\* cacheList.Store: with len(dataMap) >= maxItems the entry of the oldest
\* time is deleted (none when the map is empty: oldestKey stays ""); the key
\* is then written with the present time.
Store(cache, key) ==
    LET dataMap == cache.dataMap
        kept == IF Cardinality(DOMAIN dataMap) >= cache.maxItems /\ DOMAIN dataMap # {}
                THEN [k \in DOMAIN dataMap \ {OldestKey(dataMap)} |-> dataMap[k]]
                ELSE dataMap
    IN [cache EXCEPT !.dataMap = Put(kept, key, Now(cache))]

\* filepath.Join(root, relTilePath).
Join(root, relTilePath) == <<root, relTilePath>>

\* A reader that takes the base stack's tile first.
ReadSuperpixelTile_BaseFirst(kind, root, base, relTilePath, present, cache) ==
    LET own == Join(root, relTilePath)
        inBase == Join(base, relTilePath)
        hit == Retrieve(cache, own)
    IN IF hit.found
       THEN [fatal |-> FALSE, filename |-> own, cache |-> hit.cache, stats |-> <<>>]
       ELSE IF kind = "ExportedStack" /\ inBase \in present
       THEN [fatal |-> FALSE, filename |-> inBase, cache |-> Store(cache, inBase),
             stats |-> <<inBase>>]
       ELSE IF own \in present
       THEN [fatal |-> FALSE, filename |-> own, cache |-> Store(cache, own),
             stats |-> <<own>>]
       ELSE [fatal |-> TRUE, filename |-> own, cache |-> cache, stats |-> <<own>>]

\* ReadSuperpixelTile(stack, relTilePath) for a stack of type `kind` rooted at
\* `root` (an exported stack's Base is rooted at `base`).  filename is the file
\* the tile comes from, stats the files os.Stat was called on.
ReadSuperpixelTile(kind, root, base, relTilePath, present, cache) ==
    LET own == Join(root, relTilePath)
        inBase == Join(base, relTilePath)
        hit == Retrieve(cache, own)
    IN IF hit.found
       THEN [fatal |-> FALSE, filename |-> own, cache |-> hit.cache, stats |-> <<>>]
       ELSE IF own \in present
       THEN [fatal |-> FALSE, filename |-> own, cache |-> Store(cache, own),
             stats |-> <<own>>]
       ELSE CASE kind = "BaseStack" ->
                   [fatal |-> TRUE, filename |-> own, cache |-> cache, stats |-> <<own>>]
              [] kind = "ExportedStack" ->
                   IF inBase \in present
                   THEN [fatal |-> FALSE, filename |-> inBase,
                         cache |-> Store(cache, inBase), stats |-> <<own, inBase>>]
                   ELSE [fatal |-> TRUE, filename |-> inBase, cache |-> cache,
                         stats |-> <<own, inBase>>]
              [] OTHER ->
                   [fatal |-> TRUE, filename |-> own, cache |-> cache, stats |-> <<own>>]

(***************************************************************************)
(* Location resolution: a stack on disk and calls of GetBodyOfLocation and *)
(* GetNearestBodyOfLocation on it.                                         *)
(***************************************************************************)
\* <<excludeBodies, avoidBodies>> of a call.
BodyArgs == { <<{}, {}>>, <<{7}, {}>>, <<{}, {7}>>, <<{7}, {8}>>, <<{}, {7, 8}>> }

\* Remap files: label 1 of slice 0 is segment 100 (body 7); label 258 of
\* slice 0 is segment s2 (or has no line); label 0 of slice 0 is segment s0
\* (or has no line); segment 101 is body 8 (or has no line).  -1 = no line.
RemapFiles(s2, s0, b101) ==
    [superpixelToSegment |->
         << DataLine(<<0, 1, 100>>), DataLine(<<1, 1, 101>>), DataLine(<<1, 258, 100>>) >>
         \o (IF s2 = -1 THEN <<>> ELSE << DataLine(<<0, 258, s2>>) >>)
         \o (IF s0 = -1 THEN <<>> ELSE << DataLine(<<0, 0, s0>>) >>),
     segmentToBody |->
         << DataLine(<<100, 7>>) >>
         \o (IF b101 = -1 THEN <<>> ELSE << DataLine(<<101, b101>>) >>)]

TileFiles == { RemapFiles(101, -1, 8), RemapFiles(100, -1, 8), RemapFiles(-1, -1, 8),
               RemapFiles(101, -1, -1), RemapFiles(101, 100, 8), RemapFiles(100, 100, 8) }

Idle == [op |-> "idle"]

NoRet == [fatal |-> FALSE]

\* No ReadTxtMaps call is in flight.
NoRead == [pc |-> "none"]

\* No bounds file in either stack directory.
MissingFile == [exists |-> FALSE, rows |-> EmptyMap]

NoBounds == [s1 |-> MissingFile, s2 |-> MissingFile]

\* The tile files of a base stack rooted at "base" that covers StackBounds.
StackTiles ==
    {Join("base", TileFilename(row, col, z)) :
        row \in 0..(StackBounds.MaxPt[2] \div TileSize),
        col \in 0..(StackBounds.MaxPt[1] \div TileSize),
        z \in StackBounds.MinPt[3]..StackBounds.MaxPt[3]}

\* The ReadSuperpixelTile call GetSuperpixelTilePt makes for point p; a point
\* outside the stack ends the program before it.
TileRead(p) ==
    IF ~Include(StackBounds, p)
    THEN [fatal |-> FALSE, cache |-> superpixelCache]
    ELSE LET t == TilePt(p, TileSize)
         IN ReadSuperpixelTile("BaseStack", "base", "base",
                               TileFilename(t.row, t.col, p[3]), tileAt, superpixelCache)

InitTile ==
    /\ labels \in [PaintPos -> Labels]
    /\ format \in {Superpixel16Bits, Superpixel24Bits}
    /\ tileAt = StackTiles /\ superpixelCache = Cache(maxItems)
    /\ files \in TileFiles
    /\ mapLoaded = FALSE /\ loads = 0
    /\ spToBodyMap = EmptyMap
    /\ rd = NoRead
    /\ stack1 = EmptyMap /\ stack2 = EmptyMap /\ bodySet = {}
    /\ spBounds = NoBounds
    /\ results = <<>>
    /\ call = Idle
    /\ ret = NoRet

GetBodyOfLocationCall ==
    /\ call.op = "idle"
    /\ \E p \in QueryPts :
         \E m \in {LoadedMap(mapLoaded, spToBodyMap, files)} :
         \E r \in {GetBodyOfLocation(labels, format, m.map, p)} :
            /\ call' = [op |-> "GetBodyOfLocation", pt |-> p]
            /\ ret' = [fatal |-> r.fatal \/ TileRead(p).fatal \/ (r.lookup /\ m.fatal),
                       bodyId |-> r.bodyId, superpixel |-> r.superpixel]
            /\ mapLoaded' = (mapLoaded \/ r.lookup)
            /\ loads' = IF r.lookup /\ ~mapLoaded THEN loads + 1 ELSE loads
            /\ spToBodyMap' = IF r.lookup THEN m.map ELSE spToBodyMap
            /\ superpixelCache' = TileRead(p).cache
    /\ UNCHANGED <<labels, format, tileAt, files, rd, overlapVars>>

GetNearestBodyOfLocationCall ==
    /\ call.op = "idle"
    /\ \E p \in QueryPts, a \in BodyArgs :
         \E m \in {LoadedMap(mapLoaded, spToBodyMap, files)} :
         \E r \in {GetNearestBodyOfLocation(labels, format, m.map, p, a[1], a[2])} :
            /\ call' = [op |-> "GetNearestBodyOfLocation", pt |-> p,
                        excludeBodies |-> a[1], avoidBodies |-> a[2]]
            /\ ret' = [fatal |-> r.fatal \/ TileRead(p).fatal \/ (r.lookup /\ m.fatal),
                       bodyId |-> r.bodyId, superpixel |-> r.superpixel,
                       radius |-> r.radius, finalLocation |-> r.finalLocation,
                       reads |-> r.reads]
            /\ mapLoaded' = (mapLoaded \/ r.lookup)
            /\ loads' = IF r.lookup /\ ~mapLoaded THEN loads + 1 ELSE loads
            /\ spToBodyMap' = IF r.lookup THEN m.map ELSE spToBodyMap
            /\ superpixelCache' = TileRead(p).cache
    /\ UNCHANGED <<labels, format, tileAt, files, rd, overlapVars>>

NextTile == GetBodyOfLocationCall \/ GetNearestBodyOfLocationCall

SpecTile == InitTile /\ [][NextTile]_vars

(***************************************************************************)
(* What the claims about location resolution speak of, stated from the     *)
(* disk contents and the call's arguments.                                 *)
(***************************************************************************)
\* The raster position of a stack point in its tile.
RasterXY(p) == <<p[1] % TileSize, TileSize - (p[2] % TileSize) - 1>>

\* The label the tile file stores at a raster position.
StoredLabel(xy) == IF xy \in DOMAIN labels THEN labels[xy] ELSE 0

\* segmentToBody[superpixelToSegment[sp]] of the remap files, 0 for a missing
\* row (a later line for the same key replaces an earlier one).
Last(S) == CHOOSE i \in S : \A j \in S : j <= i

TableBody(sp) ==
    LET f1 == files.superpixelToSegment
        f2 == files.segmentToBody
        rows1 == {i \in 1..Len(f1) : f1[i].f[1] = sp[1] /\ f1[i].f[2] = sp[2]}
        rows2 == {j \in 1..Len(f2) : f2[j].f[1] = f1[Last(rows1)].f[3]}
    IN IF rows1 = {} THEN 0
       ELSE IF rows2 = {} THEN 0
       ELSE f2[Last(rows2)].f[2]

Abs(n) == IF n < 0 THEN -n ELSE n

Chebyshev(a, b) == MaxCoord(Abs(a[1] - b[1]), Abs(a[2] - b[2]))

InTile(xy) == xy[1] \in 0..(TileSize - 1) /\ xy[2] \in 0..(TileSize - 1)

NearestReturned == call.op = "GetNearestBodyOfLocation" /\ ~ret.fatal

\* Pixels of rings 0..5 around the query's raster position, inside the tile,
\* with a nonzero label whose body is not in excludeBodies.
Candidates ==
    {xy \in DOMAIN labels :
        /\ labels[xy] # 0
        /\ InTile(xy)
        /\ Chebyshev(xy, RasterXY(call.pt)) < checkRadius
        /\ TableBody(<<call.pt[3], labels[xy]>>) \notin call.excludeBodies}

CleanCandidates ==
    {xy \in Candidates : TableBody(<<call.pt[3], labels[xy]>>) \notin call.avoidBodies}

\* Place of a ring pixel in the ring's order: top, bottom, left, right line,
\* each by ascending coordinate.
RingRank(xy, c, r) ==
    IF xy[2] = c[2] - r THEN xy[1]
    ELSE IF xy[2] = c[2] + r THEN 2 * TileSize + xy[1]
    ELSE IF xy[1] = c[1] - r THEN 4 * TileSize + xy[2]
    ELSE 6 * TileSize + xy[2]

\* The first pixel of S at the smallest radius, and that radius.
NearestRadius(S) ==
    LET c == RasterXY(call.pt)
    IN CHOOSE r \in 0..(checkRadius - 1) :
          /\ \E xy \in S : Chebyshev(xy, c) = r
          /\ \A xy \in S : Chebyshev(xy, c) >= r

NearestFirst(S) ==
    LET c == RasterXY(call.pt)
        r == NearestRadius(S)
        ring == {xy \in S : Chebyshev(xy, c) = r}
    IN CHOOSE xy \in ring : \A q \in ring : RingRank(xy, c, r) <= RingRank(q, c, r)

\* The format the stack is not in.
OtherFormat == IF format = Superpixel24Bits THEN Superpixel16Bits ELSE Superpixel24Bits

(***************************************************************************)
(* C1: for an in-bounds point whose stored label L is nonzero,             *)
(* GetBodyOfLocation returns segmentToBody[superpixelToSegment[(z, L)]],   *)
(* and the same body when the tile stores L in the other pixel format.     *)
(***************************************************************************)
C1_BodyOfLocation ==
    (call.op = "GetBodyOfLocation" /\ ~ret.fatal /\ StoredLabel(RasterXY(call.pt)) # 0)
    => /\ ret.bodyId = TableBody(<<call.pt[3], StoredLabel(RasterXY(call.pt))>>)
       /\ ret.bodyId = GetBodyOfLocation(labels, OtherFormat, spToBodyMap,
                                         call.pt).bodyId

C1_Witness ==
    /\ call.op = "GetBodyOfLocation"
    /\ ~ret.fatal
    /\ format = Superpixel24Bits
    /\ StoredLabel(RasterXY(call.pt)) = 258
    /\ call.pt[1] >= TileSize
    /\ ret.bodyId = 7

(***************************************************************************)
(* C2: GetNearestBodyOfLocation never returns a body of excludeBodies as   *)
(* the resolved (nonzero) body.                                            *)
(***************************************************************************)
C2_NeverExcluded ==
    (NearestReturned /\ ret.bodyId # 0) => ret.bodyId \notin call.excludeBodies

(***************************************************************************)
(* C3: when a pixel of rings 0..5 has a nonzero label whose body is neither*)
(* excluded nor avoided, the call returns the body of the first such pixel *)
(* of the nearest such ring, with that ring's radius.                      *)
(***************************************************************************)
C3_ImmediateNearest ==
    (NearestReturned /\ CleanCandidates # {})
    => /\ ret.radius = NearestRadius(CleanCandidates)
       /\ ret.bodyId = TableBody(<<call.pt[3], labels[NearestFirst(CleanCandidates)]>>)

(***************************************************************************)
(* C4: when rings 0..5 hold non-excluded candidates and all of them are    *)
(* avoided, the call returns the first candidate of the nearest ring, with *)
(* that ring's radius.                                                     *)
(***************************************************************************)
C4_FallbackNearest ==
    (NearestReturned /\ Candidates # {} /\ CleanCandidates = {})
    => /\ ret.radius = NearestRadius(Candidates)
       /\ ret.bodyId = TableBody(<<call.pt[3], labels[NearestFirst(Candidates)]>>)

(***************************************************************************)
(* C5: when no nonzero pixel of rings 0..5 resolves to a body outside      *)
(* excludeBodies, the call returns body 0 with radius 6.                   *)
(***************************************************************************)
C5_Unresolved ==
    (NearestReturned /\ Candidates = {}) => (ret.bodyId = 0 /\ ret.radius = checkRadius)

(***************************************************************************)
(* raveler.go: overlap matching between two stacks.                        *)
(***************************************************************************)
\* Stack.GetBodyToSuperpixelsMap: for each body of bodySet that some
\* superpixel maps to, its superpixels.  The code appends them to a slice in
\* the map's iteration order; every superpixel is appended once and only the
\* slice's elements and length are read, so it is kept as a set.
GetBodyToSuperpixelsMap(m, bodies) ==
    [b \in {m[sp] : sp \in DOMAIN m} \cap bodies |-> {sp \in DOMAIN m : m[sp] = b}]

\* The tally loop: overlapsMap[bodyId1][bodyId2] += 1 for every superpixel of
\* bodyId1 found in the target map.
OverlapsMap(body1ToSpMap, sp2ToBodyMap) ==
    [b1 \in {b \in DOMAIN body1ToSpMap : body1ToSpMap[b] \cap DOMAIN sp2ToBodyMap # {}} |->
        LET found == body1ToSpMap[b1] \cap DOMAIN sp2ToBodyMap
        IN [b2 \in {sp2ToBodyMap[sp] : sp \in found} |->
               Cardinality({sp \in found : sp2ToBodyMap[sp] = b2})]]

\* The orders in which `range` may visit the keys of a map with key set S.
Orders(S) ==
    {o \in [1..Cardinality(S) -> S] : \A i, j \in 1..Cardinality(S) : o[i] = o[j] => i = j}

\* A winner loop that keeps the first body it meets.
RECURSIVE LargestOverlap_FirstMet(_, _, _, _)
LargestOverlap_FirstMet(overlaps, order, i, best) ==
    IF i > Len(order) THEN best
    ELSE LargestOverlap_FirstMet(overlaps, order, i + 1,
             IF i = 1
             THEN [largest |-> overlaps[order[i]], matchedBodyId |-> order[i]]
             ELSE best)

\* The winner loop over `overlaps`, visited in `order`, from position i on:
\* if count > largest { largest = count; matchedBodyId = bodyId2 }
RECURSIVE LargestOverlap(_, _, _, _)
LargestOverlap(overlaps, order, i, best) ==
    IF i > Len(order) THEN best
    ELSE LargestOverlap(overlaps, order, i + 1,
             IF overlaps[order[i]] > best.largest
             THEN [largest |-> overlaps[order[i]], matchedBodyId |-> order[i]]
             ELSE best)

\* The tally that also opens an entry for a source body none of whose
\* superpixels is in the target map.
OverlapEntries_AllBodies(body1ToSpMap, sp2ToBodyMap) == DOMAIN body1ToSpMap

\* The source bodies that get an entry of overlapsMap.
OverlapEntries(body1ToSpMap, sp2ToBodyMap) ==
    DOMAIN OverlapsMap(body1ToSpMap, sp2ToBodyMap)

\* The tally of a source body, empty when it has no entry.
OverlapsOf(body1ToSpMap, sp2ToBodyMap, b1) ==
    LET overlapsMap == OverlapsMap(body1ToSpMap, sp2ToBodyMap)
    IN IF b1 \in DOMAIN overlapsMap THEN overlapsMap[b1] ELSE EmptyMap

\* An analysis whose MaxOverlap counts only the superpixels found in the
\* target map.
OverlapAnalysis_FoundOnly(m1, m2, bodies, order) ==
    LET body1ToSpMap == GetBodyToSuperpixelsMap(m1, bodies)
    IN [bodyId1 \in OverlapEntries(body1ToSpMap, m2) |->
           LET overlaps == OverlapsOf(body1ToSpMap, m2, bodyId1)
               best == LargestOverlap(overlaps, order[bodyId1], 1,
                                      [largest |-> 0, matchedBodyId |-> 0])
           IN [MatchedBody |-> best.matchedBodyId,
               OverlapSize |-> best.largest,
               MaxOverlap  |-> Cardinality(body1ToSpMap[bodyId1] \cap DOMAIN m2)]]

\* OverlapAnalysis(stack1, stack2, bodySet); order[b1] is the order in which
\* the winner loop of source body b1 visits its tally.
OverlapAnalysis(m1, m2, bodies, order) ==
    LET body1ToSpMap == GetBodyToSuperpixelsMap(m1, bodies)
    IN [bodyId1 \in OverlapEntries(body1ToSpMap, m2) |->
           LET overlaps == OverlapsOf(body1ToSpMap, m2, bodyId1)
               best == LargestOverlap(overlaps, order[bodyId1], 1,
                                      [largest |-> 0, matchedBodyId |-> 0])
           IN [MatchedBody |-> best.matchedBodyId,
               OverlapSize |-> best.largest,
               MaxOverlap  |-> Cardinality(body1ToSpMap[bodyId1])]]

\* The iteration orders one OverlapAnalysis call may meet.
WinnerOrders(m1, m2, bodies) ==
    LET body1ToSpMap == GetBodyToSuperpixelsMap(m1, bodies)
        entries == OverlapEntries(body1ToSpMap, m2)
        all == UNION {Orders(DOMAIN OverlapsOf(body1ToSpMap, m2, b)) : b \in entries}
    IN {o \in [entries -> all] :
           \A b \in entries : o[b] \in Orders(DOMAIN OverlapsOf(body1ToSpMap, m2, b))}

(***************************************************************************)
(* Overlap matching: two loaded stacks and calls of OverlapAnalysis.       *)
(***************************************************************************)
NumSp == 3             \* superpixels that a stack's table may hold
MaxRuns == 2           \* OverlapAnalysis calls in one behaviour

OverlapSps == {<<0, i>> : i \in 1..NumSp}

SourceBodies == {5, 6}

TargetBodies == {0, 7, 8}

\* The maps from a subset of S to V.
MapsOver(S, V) == UNION {[D -> V] : D \in SUBSET S}

BodySets == { {5}, {5, 6}, {5, 6, 9}, {} }

InitOverlap ==
    /\ stack1 \in MapsOver(OverlapSps, SourceBodies)
    /\ stack2 \in MapsOver(OverlapSps, TargetBodies)
    /\ bodySet \in BodySets
    /\ spBounds = NoBounds
    /\ results = <<>>
    /\ labels = EmptyMap /\ format = SuperpixelNone
    /\ tileAt = {} /\ superpixelCache = Cache(maxItems)
    /\ files = [superpixelToSegment |-> <<>>, segmentToBody |-> <<>>]
    /\ mapLoaded = TRUE /\ loads = 1
    /\ spToBodyMap = EmptyMap
    /\ rd = NoRead
    /\ call = Idle
    /\ ret = NoRet

OverlapAnalysisCall ==
    /\ Len(results) < MaxRuns
    /\ \E order \in WinnerOrders(stack1, stack2, bodySet) :
         LET matchingMap == OverlapAnalysis(stack1, stack2, bodySet, order)
         IN /\ results' = Append(results, matchingMap)
            /\ call' = [op |-> "OverlapAnalysis", bodySet |-> bodySet]
            /\ ret' = [fatal |-> FALSE, matchingMap |-> matchingMap]
    /\ UNCHANGED <<tileVars, files, mapLoaded, loads, spToBodyMap, rd, stack1, stack2, bodySet,
                   spBounds>>

NextOverlap == OverlapAnalysisCall

SpecOverlap == InitOverlap /\ [][NextOverlap]_vars

\* The votes of source body b for target body t, from the two tables.
Votes(b, t) ==
    Cardinality({sp \in DOMAIN stack1 \cap DOMAIN stack2 : stack1[sp] = b /\ stack2[sp] = t})

\* The requested bodies with a superpixel in the source table that the target
\* table holds too.
Matchable ==
    {b \in bodySet : \E sp \in DOMAIN stack1 \cap DOMAIN stack2 : stack1[sp] = b}

OverlapReturned == call.op = "OverlapAnalysis" /\ ~ret.fatal

(***************************************************************************)
(* C6: for every requested source body with a superpixel in the target     *)
(* table, the result's MatchedBody has the maximum vote count over the     *)
(* target bodies, OverlapSize is that count, and MaxOverlap is the number  *)
(* of superpixels the source table maps to the source body.                *)
(***************************************************************************)
C6_MaximalOverlap ==
    OverlapReturned =>
      \A b \in Matchable :
        /\ b \in DOMAIN ret.matchingMap
        /\ \A t \in TargetBodies : Votes(b, t) <= Votes(b, ret.matchingMap[b].MatchedBody)
        /\ ret.matchingMap[b].OverlapSize = Votes(b, ret.matchingMap[b].MatchedBody)
        /\ ret.matchingMap[b].MaxOverlap = Cardinality({sp \in DOMAIN stack1 : stack1[sp] = b})

\* Two votes for body 8 against one for body 7, of three superpixels.
C6_Witness ==
    /\ OverlapReturned
    /\ 5 \in Matchable
    /\ Votes(5, 8) = 2 /\ Votes(5, 7) = 1
    /\ ret.matchingMap[5] = [MatchedBody |-> 8, OverlapSize |-> 2, MaxOverlap |-> 3]

C8_Deterministic ==
    Len(results) = 2 =>
      /\ DOMAIN results[1] = DOMAIN results[2]
      /\ \A b \in DOMAIN results[1] : results[1][b].MatchedBody = results[2][b].MatchedBody

(***************************************************************************)
(* raveler.go: the quality gate on superpixel bounds.  A bounds file is    *)
(* kept as what its rows give, the Volume field of each superpixel with a  *)
(* row, and whether the stack directory has the file at all.               *)
(***************************************************************************)
\* ReadSuperpixelBounds(filename, superpixelSet): with an empty set every row
\* is kept, otherwise the rows of the set's superpixels.
ReadSuperpixelBounds(file, superpixelSet) ==
    IF ~file.exists THEN [err |-> TRUE, spBoundsMap |-> EmptyMap]
    ELSE LET alwaysSetSuperpixel == superpixelSet = {}
         IN [err |-> FALSE,
             spBoundsMap |-> [sp \in {s \in DOMAIN file.rows :
                                         alwaysSetSuperpixel \/ s \in superpixelSet}
                                 |-> file.rows[sp]]]

RECURSIVE SumOver(_, _)
SumOver(S, f) ==
    IF S = {} THEN 0
    ELSE LET x == CHOOSE y \in S : TRUE IN f[x] + SumOver(S \ {x}, f)

\* The spacing of the float32 values around n, searched from u upwards.
RECURSIVE Ulp(_, _)
Ulp(n, u) == IF n \div u < 16777216 THEN u ELSE Ulp(n, 2 * u)

\* float32(n) of a non-negative int n: the nearest value with a 24-bit
\* significand, a tie going to the even significand.
Float32(n) ==
    LET u == Ulp(n, 1)
        q == n \div u
        rest == n % u
    IN IF 2 * rest > u \/ (2 * rest = u /\ q % 2 = 1) THEN (q + 1) * u ELSE q * u

\* floor(r * 2^k / b) for r < b, bit by bit; q holds the bits so far.
RECURSIVE QuotientBits(_, _, _, _)
QuotientBits(r, b, k, q) ==
    IF k = 0 THEN q
    ELSE IF 2 * r >= b THEN QuotientBits(2 * r - b, b, k - 1, 2 * q + 1)
    ELSE QuotientBits(2 * r, b, k - 1, 2 * q)

\* percentDiff := float32(voxelsDiff) / float32(voxelsTotal); percentDiff > 0.10
\* The constant is float32(0.10) = 13421773 * 2^-27.  The float32 quotient is
\* above it exactly when the real quotient is at least the midpoint
\* 26843547 * 2^-28 to the next float32 (the tie rounds to the even
\* significand, which is the next one).  0/0 is NaN, which compares false;
\* x/0 for x > 0 is +Inf.
PercentDiffAbove(voxelsDiff, voxelsTotal) ==
    LET a == Float32(voxelsDiff)
        b == Float32(voxelsTotal)
    IN IF b = 0 THEN a > 0
       ELSE IF a >= b THEN TRUE
       ELSE QuotientBits(a, b, 28, 0) >= 26843547

\* Stack.SuperpixelBoundsChanged(stack2, superpixelSet): [fatal, changed].
SuperpixelBoundsChanged(file1, file2, superpixelSet) ==
    LET r1 == ReadSuperpixelBounds(file1, superpixelSet)
        r2 == ReadSuperpixelBounds(file2, superpixelSet)
        spBounds1 == r1.spBoundsMap
        spBounds2 == r2.spBoundsMap
        voxelsTotal == SumOver(DOMAIN spBounds1, spBounds1)
        voxelsDiff ==
            SumOver(DOMAIN spBounds1,
                    [sp \in DOMAIN spBounds1 |->
                        IF sp \notin DOMAIN spBounds2 THEN spBounds1[sp]
                        ELSE IF spBounds2[sp] > spBounds1[sp]
                        THEN spBounds2[sp] - spBounds1[sp]
                        ELSE spBounds1[sp] - spBounds2[sp]])
    IN IF r1.err \/ r2.err THEN [fatal |-> FALSE, changed |-> FALSE]
       ELSE [fatal |-> PercentDiffAbove(voxelsDiff, voxelsTotal), changed |-> FALSE]

\* Stack.SuperpixelsChanged, the name the function has where OverlapAnalysis
\* calls it.
SuperpixelsChanged(file1, file2, superpixelSet) ==
    SuperpixelBoundsChanged(file1, file2, superpixelSet)

\* BaseStack.OverlapAnalysis(bodyToSpMap, exportedStack), the overlap matching
\* with the gate in place: the tally with the set of superpixels found in the
\* target stack, the gate on that set (the target stack is its receiver), the
\* winner loops.
BaseStackOverlapAnalysis(target, bodyToSpMap, targetBounds, exportedBounds, order) ==
    LET superpixelSet == UNION {bodyToSpMap[b] \cap DOMAIN target : b \in DOMAIN bodyToSpMap}
        gate == SuperpixelsChanged(targetBounds, exportedBounds, superpixelSet)
        overlapsMap == OverlapsMap(bodyToSpMap, target)
    IN IF gate.fatal \/ gate.changed
       THEN [fatal |-> TRUE, bodyToBodyMap |-> EmptyMap]
       ELSE [fatal |-> FALSE,
             bodyToBodyMap |->
                 [bodyId \in DOMAIN overlapsMap |->
                     LargestOverlap(overlapsMap[bodyId], order[bodyId], 1,
                                    [largest |-> 0, matchedBodyId |-> 0]).matchedBodyId]]

(***************************************************************************)
(* The gated overlap matching on stacks with bounds files.                 *)
(***************************************************************************)
NumGateSp == 2         \* superpixels of the stacks under the gate

GateSps == {<<0, i>> : i \in 1..NumGateSp}

\* Volume fields of the target stack's and of the exported stack's rows.
TargetVolumes == {10, 20000000, 180000000}

ExportedVolumes == {11, 180000001}

BoundsFiles(volumes) ==
    {[exists |-> TRUE, rows |-> m] : m \in MapsOver(GateSps, volumes)} \cup {MissingFile}

InitGate ==
    /\ stack1 \in [GateSps -> {5}]
    /\ stack2 \in MapsOver(GateSps, {7})
    /\ bodySet = {5}
    /\ spBounds \in [s1 : BoundsFiles(ExportedVolumes), s2 : BoundsFiles(TargetVolumes)]
    /\ results = <<>>
    /\ labels = EmptyMap /\ format = SuperpixelNone
    /\ tileAt = {} /\ superpixelCache = Cache(maxItems)
    /\ files = [superpixelToSegment |-> <<>>, segmentToBody |-> <<>>]
    /\ mapLoaded = TRUE /\ loads = 1
    /\ spToBodyMap = EmptyMap
    /\ rd = NoRead
    /\ call = Idle
    /\ ret = NoRet

\* The exported stack is stack1, the target (base) stack is stack2.
BaseStackOverlapAnalysisCall ==
    /\ call.op = "idle"
    /\ \E order \in WinnerOrders(stack1, stack2, bodySet) :
         LET bodyToSpMap == GetBodyToSuperpixelsMap(stack1, bodySet)
             r == BaseStackOverlapAnalysis(stack2, bodyToSpMap, spBounds.s2, spBounds.s1,
                                           order)
         IN /\ call' = [op |-> "BaseStack.OverlapAnalysis",
                        superpixelSet |-> UNION {bodyToSpMap[b] \cap DOMAIN stack2 :
                                                    b \in DOMAIN bodyToSpMap}]
            /\ ret' = r
    /\ UNCHANGED <<tileVars, files, mapLoaded, loads, spToBodyMap, rd, overlapVars>>

NextGate == BaseStackOverlapAnalysisCall

SpecGate == InitGate /\ [][NextGate]_vars

\* The superpixels the gate evaluates: the rows of the first (target) stack's
\* bounds file for the superpixels found, or all its rows when none was found.
Evaluated ==
    {sp \in DOMAIN spBounds.s2.rows : call.superpixelSet = {} \/ sp \in call.superpixelSet}

\* The volume the second (exported) stack's bounds give sp, -1 for none.
Vol2(sp) == IF sp \in DOMAIN spBounds.s1.rows THEN spBounds.s1.rows[sp] ELSE -1

VolumeDiff(sp) ==
    IF Vol2(sp) = -1 THEN spBounds.s2.rows[sp] ELSE Abs(spBounds.s2.rows[sp] - Vol2(sp))

GateEvaluated ==
    /\ call.op = "BaseStack.OverlapAnalysis"
    /\ spBounds.s1.exists
    /\ spBounds.s2.exists

(***************************************************************************)
(* C9: with the gate in place, whenever the volume differences of the      *)
(* evaluated superpixels sum to more than 10% of their summed volume in    *)
(* the first stack, the overlap matching aborts and returns no result.     *)
(***************************************************************************)
C9_GateAborts ==
    (/\ GateEvaluated
     /\ SumOver(Evaluated, [sp \in Evaluated |-> VolumeDiff(sp)])
          > SumOver(Evaluated, spBounds.s2.rows) \div 10)
    => (ret.fatal /\ ret.bodyToBodyMap = EmptyMap)

(***************************************************************************)
(* Remap table loading, step by step: ReadTxtMaps starts one goroutine per *)
(* file, each reads its file line by line and then sends on waitchan; the  *)
(* caller receives twice and composes.  rd is the call in flight:          *)
(*   pc       "loading", "returned", or "exited" after log.Fatalf          *)
(*   line     the index of the next line of each goroutine                 *)
(*   at       where each goroutine is: "read", "send" (blocked on the      *)
(*            unbuffered waitchan), "done"                                 *)
(*   spToBodyMap, segmentToBodyMap  the two maps as the goroutines filled  *)
(*            them (spToBodyMap before the composition overwrites it)      *)
(*   received how many values the caller has taken from waitchan           *)
(***************************************************************************)
MaxCalls == 2          \* lookups on the stack handle in one behaviour

CommentLine == [c |-> "hash", f |-> <<>>, nl |-> TRUE]

\* A line that starts with a space, as "%8d" writes a number below 10^7.
PaddedLine(fields) == [c |-> "space", f |-> fields, nl |-> TRUE]

BlankLine == [c |-> "newline", f |-> <<>>, nl |-> TRUE]

TextLine == [c |-> "other", f |-> <<>>, nl |-> TRUE]

\* The rest of a file after its last '\n'.
Unterminated(fields) == [c |-> "digit", f |-> fields, nl |-> FALSE]

SuperpixelToSegmentFiles ==
    { << DataLine(<<0, 1, 100>>), DataLine(<<0, 2, 101>>), DataLine(<<1, 1, 102>>) >>,
      << CommentLine, DataLine(<<0, 1, 100>>), PaddedLine(<<0, 3, 100>>),
         DataLine(<<0, 2, 100>>) >>,
      << DataLine(<<0, 1, 100>>), DataLine(<<0, 1, 101>>) >>,
      << DataLine(<<0, 1, 100>>), BlankLine, DataLine(<<0, 2, 101>>) >>,
      << DataLine(<<0, 1, 100>>), Unterminated(<<0, 2, 101>>) >>,
      << DataLine(<<0, 1, 100>>), DataLine(<<0, 2>>) >>,
      << >> }

SegmentToBodyFiles ==
    { << DataLine(<<100, 7>>), DataLine(<<101, 8>>) >>,
      << CommentLine, DataLine(<<100, 7>>) >>,
      << DataLine(<<100, 7>>), DataLine(<<100, 9>>) >>,
      << DataLine(<<100, 7>>), Unterminated(<<101, 8>>) >>,
      << DataLine(<<101, 7>>), TextLine >> }

LookupKeys == { <<0, 1>>, <<0, 2>>, <<1, 1>>, <<0, 99>> }

NoCall == [op |-> "idle", done |-> TRUE, n |-> 0]

InitMaps ==
    /\ files \in [superpixelToSegment : SuperpixelToSegmentFiles,
                  segmentToBody : SegmentToBodyFiles]
    /\ mapLoaded = FALSE /\ loads = 0
    /\ spToBodyMap = EmptyMap
    /\ rd = NoRead
    /\ labels = EmptyMap /\ format = SuperpixelNone
    /\ tileAt = {} /\ superpixelCache = Cache(maxItems)
    /\ stack1 = EmptyMap /\ stack2 = EmptyMap /\ bodySet = {}
    /\ spBounds = NoBounds
    /\ results = <<>>
    /\ call = NoCall
    /\ ret = NoRet

\* stack.SuperpixelToBody(s): with the map loaded it returns at once; without,
\* Stack.ReadTxtMaps calls ReadTxtMaps, which starts the two goroutines and
\* waits on waitchan.
SuperpixelToBodyCall ==
    /\ call.done
    /\ call.n < MaxCalls
    /\ rd.pc # "exited"
    /\ \E s \in LookupKeys :
         IF mapLoaded
         THEN /\ call' = [op |-> "SuperpixelToBody", s |-> s, done |-> TRUE, n |-> call.n + 1]
              /\ ret' = [fatal |-> FALSE, bodyId |-> SuperpixelToBody(spToBodyMap, s)]
              /\ UNCHANGED <<rd, loads>>
         ELSE /\ call' = [op |-> "SuperpixelToBody", s |-> s, done |-> FALSE, n |-> call.n + 1]
              /\ ret' = NoRet
              /\ rd' = [pc |-> "loading", line |-> <<1, 1>>, at |-> <<"read", "read">>,
                        spToBodyMap |-> EmptyMap, segmentToBodyMap |-> EmptyMap,
                        received |-> 0]
              /\ loads' = loads + 1
    /\ UNCHANGED <<tileVars, files, mapLoaded, spToBodyMap, overlapVars>>

\* One turn of the `for` loop of goroutine i over file `file`, with `need`
\* verbs in its Sscanf.
LoadLine(i, file, need) ==
    /\ rd.pc = "loading"
    /\ rd.at[i] = "read"
    /\ LET k == rd.line[i]
           o == IF k > Len(file) THEN "eof" ELSE LineOutcome(file[k], need)
       IN CASE o = "eof" ->
                 /\ rd' = [rd EXCEPT !.at[i] = "send"]
                 /\ UNCHANGED <<call, ret>>
            [] o = "skip" ->
                 /\ rd' = [rd EXCEPT !.line[i] = k + 1]
                 /\ UNCHANGED <<call, ret>>
            [] o = "data" ->
                 /\ rd' = IF i = 1
                          THEN [rd EXCEPT !.line[i] = k + 1,
                                          !.spToBodyMap = Put(@, LineKey(file[k], need),
                                                              LineValue(file[k], need))]
                          ELSE [rd EXCEPT !.line[i] = k + 1,
                                          !.segmentToBodyMap = Put(@, LineKey(file[k], need),
                                                                   LineValue(file[k], need))]
                 /\ UNCHANGED <<call, ret>>
            [] o = "fatal" ->
                 /\ rd' = [rd EXCEPT !.pc = "exited"]
                 /\ call' = [call EXCEPT !.done = TRUE]
                 /\ ret' = [fatal |-> TRUE]
    /\ UNCHANGED <<tileVars, files, mapLoaded, loads, spToBodyMap, overlapVars>>

LoadSuperpixelToSegmentLine == LoadLine(1, files.superpixelToSegment, 3)

LoadSegmentToBodyLine == LoadLine(2, files.segmentToBody, 2)

\* waitchan <- true of goroutine i meets one of the caller's two receives.
Receive ==
    /\ rd.pc = "loading"
    /\ rd.received < 2
    /\ \E i \in {1, 2} :
         /\ rd.at[i] = "send"
         /\ rd' = [rd EXCEPT !.at[i] = "done", !.received = @ + 1]
    /\ UNCHANGED <<tileVars, files, mapLoaded, loads, spToBodyMap, overlapVars, call, ret>>

\* A composition that starts after the first receive.
Compose_AfterFirstReceive ==
    /\ rd.pc = "loading"
    /\ rd.received >= 1
    /\ LET m == ComposeMaps(rd.spToBodyMap, rd.segmentToBodyMap)
       IN /\ spToBodyMap' = m
          /\ mapLoaded' = TRUE
          /\ rd' = [rd EXCEPT !.pc = "returned"]
          /\ call' = [call EXCEPT !.done = TRUE]
          /\ ret' = [fatal |-> FALSE, bodyId |-> SuperpixelToBody(m, call.s)]
    /\ UNCHANGED <<tileVars, files, loads, overlapVars>>

\* After the second receive: the composition loop, the return of ReadTxtMaps
\* into stack.spToBodyMap, and the lookup that was waiting for it.
Compose ==
    /\ rd.pc = "loading"
    /\ rd.received = 2
    /\ LET m == ComposeMaps(rd.spToBodyMap, rd.segmentToBodyMap)
       IN /\ spToBodyMap' = m
          /\ mapLoaded' = TRUE
          /\ rd' = [rd EXCEPT !.pc = "returned"]
          /\ call' = [call EXCEPT !.done = TRUE]
          /\ ret' = [fatal |-> FALSE, bodyId |-> SuperpixelToBody(m, call.s)]
    /\ UNCHANGED <<tileVars, files, loads, overlapVars>>

NextMaps ==
    \/ SuperpixelToBodyCall
    \/ LoadSuperpixelToSegmentLine
    \/ LoadSegmentToBodyLine
    \/ Receive
    \/ Compose

SpecMaps == InitMaps /\ [][NextMaps]_vars

\* The Go scheduler runs every goroutine that can take a step: the two
\* loaders, the rendezvous on the unbuffered waitchan, and the caller.
SpecMapsFair ==
    /\ SpecMaps
    /\ WF_vars(LoadSuperpixelToSegmentLine)
    /\ WF_vars(LoadSegmentToBodyLine)
    /\ WF_vars(Receive)
    /\ WF_vars(Compose)

\* The body the two loaded tables give a superpixel: the body of the row of
\* its segment, 0 when the segment or the superpixel has no row.
ComposedBody(sp) ==
    IF sp \notin DOMAIN rd.spToBodyMap THEN 0
    ELSE IF rd.spToBodyMap[sp] \notin DOMAIN rd.segmentToBodyMap THEN 0
    ELSE rd.segmentToBodyMap[rd.spToBodyMap[sp]]

(***************************************************************************)
(* C10: once ReadTxtMaps has composed the two tables, the composed map has *)
(* exactly the keys of the superpixel->segment table, SuperpixelToBody of  *)
(* each key is the body the segment->body table gives its segment (0 when  *)
(* the segment has no row), and SuperpixelToBody of any other key is 0.    *)
(***************************************************************************)
C10_Composition ==
    rd.pc = "returned" =>
      /\ mapLoaded
      /\ DOMAIN spToBodyMap = DOMAIN rd.spToBodyMap
      /\ \A sp \in DOMAIN rd.spToBodyMap \cup LookupKeys :
             SuperpixelToBody(spToBodyMap, sp) = ComposedBody(sp)
      /\ (call.op = "SuperpixelToBody" /\ call.done) => ret.bodyId = ComposedBody(call.s)

\* {(0,1)->100, (0,2)->101, (1,1)->102} with {100->7, 101->8}: 7 for (0,1),
\* 0 for (1,1) whose segment has no row, 0 for the absent key (0,99).
C10_Witness ==
    /\ rd.pc = "returned"
    /\ call.op = "SuperpixelToBody" /\ call.done /\ call.s = <<0, 99>>
    /\ ret.bodyId = 0
    /\ <<0, 99>> \notin DOMAIN spToBodyMap
    /\ {<<0, 1>>, <<1, 1>>} \subseteq DOMAIN spToBodyMap
    /\ 100 \in DOMAIN rd.segmentToBodyMap
    /\ rd.spToBodyMap[<<0, 1>>] = 100 /\ rd.segmentToBodyMap[100] = 7
    /\ spToBodyMap[<<0, 1>>] = 7
    /\ rd.spToBodyMap[<<1, 1>>] \notin DOMAIN rd.segmentToBodyMap
    /\ spToBodyMap[<<1, 1>>] = 0

\* A line the loaders are to pass over: blank, or starting with ' ' or '#'.
Skippable(line) == line.c \in {"newline", "space", "hash"}

\* The file and the Sscanf verb count of loader goroutine i.
FileOf(i) == IF i = 1 THEN files.superpixelToSegment ELSE files.segmentToBody

NeedOf(i) == IF i = 1 THEN 3 ELSE 2

\* The keys of the terminated lines among the first k that are not skippable.
DataKeys(i, k) ==
    {LineKey(FileOf(i)[j], NeedOf(i)) :
        j \in {n \in 1..MinCoord(k, Len(FileOf(i))) :
                 /\ FileOf(i)[n].nl
                 /\ ~Skippable(FileOf(i)[n])
                 /\ Len(FileOf(i)[n].f) >= NeedOf(i)}}

(***************************************************************************)
(* C12: while a remap table loads, blank lines and lines starting with a   *)
(* space or '#' are passed over: the load aborts only at a line that is    *)
(* none of these and does not parse, and the table holds exactly the keys  *)
(* of the other lines read so far.                                         *)
(***************************************************************************)
C12_SkipsBlankAndPrefixed ==
    /\ rd.pc = "exited" =>
         \E i \in {1, 2} :
            /\ rd.at[i] = "read"
            /\ rd.line[i] <= Len(FileOf(i))
            /\ ~Skippable(FileOf(i)[rd.line[i]])
    /\ rd.pc \in {"loading", "exited"} =>
         /\ DOMAIN rd.spToBodyMap = DataKeys(1, rd.line[1] - 1)
         /\ DOMAIN rd.segmentToBodyMap = DataKeys(2, rd.line[2] - 1)

\* Loader goroutine i has left its loop: it is past the last line ReadString
\* returns without error.
Finished(i) ==
    /\ rd.at[i] \in {"send", "done"}
    /\ \/ rd.line[i] > Len(FileOf(i))
       \/ ~FileOf(i)[rd.line[i]].nl

\* Neither file has a line at which its loader aborts.
BothParse ==
    /\ ~LoadTable(files.superpixelToSegment, 3, 1, EmptyMap).fatal
    /\ ~LoadTable(files.segmentToBody, 2, 1, EmptyMap).fatal

(***************************************************************************)
(* C13: in ReadTxtMaps the composition happens only when both loader       *)
(* goroutines have finished and both their sends have been received; a     *)
(* step that writes one of the two maps is a step of that map's loader     *)
(* alone and leaves the other map as it was; and a call reading two files  *)
(* that parse always returns.                                              *)
(***************************************************************************)
C13_JoinThenCompose ==
    /\ [][(rd.pc = "loading" /\ rd'.pc = "returned")
             => (Finished(1) /\ Finished(2) /\ rd.at = <<"done", "done">>)]_vars
    /\ [][(rd.pc = "loading" /\ rd'.pc = "loading")
             => /\ rd'.spToBodyMap # rd.spToBodyMap
                   => (rd'.segmentToBodyMap = rd.segmentToBodyMap
                       /\ rd'.line[2] = rd.line[2] /\ rd'.line[1] = rd.line[1] + 1)
                /\ rd'.segmentToBodyMap # rd.segmentToBodyMap
                   => (rd'.spToBodyMap = rd.spToBodyMap
                       /\ rd'.line[1] = rd.line[1] /\ rd'.line[2] = rd.line[2] + 1)]_vars
    /\ (rd.pc = "loading" /\ BothParse) ~> (rd.pc = "returned")

\* A call that has returned the composition of two tables of two rows each.
C13_Witness ==
    /\ rd.pc = "returned"
    /\ BothParse
    /\ rd.at = <<"done", "done">>
    /\ Cardinality(DOMAIN rd.spToBodyMap) >= 2
    /\ Cardinality(DOMAIN rd.segmentToBodyMap) >= 2
    /\ mapLoaded

(***************************************************************************)
(* One stack handle and the calls of its methods that read the composed    *)
(* map, each call run to its return before the next is made.               *)
(***************************************************************************)
MaxStackCalls == 4     \* method calls on the stack handle in one behaviour

\* A handle whose ReadTxtMaps reads the stack directory on every call.
StackReadTxtMaps_EveryCall(loaded, m, n, fs) ==
    CHOOSE out \in
        {[fatal |-> r.fatal, mapLoaded |-> ~r.fatal, spToBodyMap |-> r.map,
          loads |-> n + 1] : r \in {ReadTxtMaps(fs)}}
        : TRUE

\* Stack.ReadTxtMaps on a handle with mapLoaded = loaded, spToBodyMap = m and
\* n loads made so far; log.Fatalf inside ReadTxtMaps ends the program.
StackReadTxtMaps(loaded, m, n, fs) ==
    IF ~loaded
    THEN CHOOSE out \in
             {[fatal |-> r.fatal, mapLoaded |-> ~r.fatal, spToBodyMap |-> r.map,
               loads |-> n + 1] : r \in {ReadTxtMaps(fs)}}
             : TRUE
    ELSE [fatal |-> FALSE, mapLoaded |-> loaded, spToBodyMap |-> m, loads |-> n]

\* Stack.ClearTxtMaps.
StackClearTxtMaps(loaded, m) ==
    IF loaded THEN [mapLoaded |-> FALSE, spToBodyMap |-> EmptyMap]
    ELSE [mapLoaded |-> loaded, spToBodyMap |-> m]

\* The orders in which `range` may visit the keys of map m.
KeyOrders(m) ==
    {o \in [1..Cardinality(DOMAIN m) -> DOMAIN m] :
        \A i, j \in 1..Cardinality(DOMAIN m) : o[i] = o[j] => i = j}

\* An inverse index that does not test bodySet.
RECURSIVE BodyToSpLists_Unfiltered(_, _, _, _, _)
BodyToSpLists_Unfiltered(m, bodies, order, i, bodyToSpMap) ==
    IF i > Len(order) THEN bodyToSpMap
    ELSE CHOOSE out \in
             {BodyToSpLists_Unfiltered(m, bodies, order, i + 1, next) :
                 next \in {Put(bodyToSpMap, m[order[i]],
                               Append(IF m[order[i]] \in DOMAIN bodyToSpMap
                                      THEN bodyToSpMap[m[order[i]]] ELSE <<>>,
                                      order[i]))}}
             : TRUE

\* The loop of Stack.GetBodyToSuperpixelsMap over stack.spToBodyMap = m, its
\* keys visited in `order`, from the i-th on; append to the nil slice of a
\* body without entry makes its first entry.
RECURSIVE BodyToSpLists(_, _, _, _, _)
BodyToSpLists(m, bodies, order, i, bodyToSpMap) ==
    IF i > Len(order) THEN bodyToSpMap
    ELSE CHOOSE out \in
             {BodyToSpLists(m, bodies, order, i + 1, next) :
                 next \in {IF m[order[i]] \in bodies
                           THEN Put(bodyToSpMap, m[order[i]],
                                    Append(IF m[order[i]] \in DOMAIN bodyToSpMap
                                           THEN bodyToSpMap[m[order[i]]] ELSE <<>>,
                                           order[i]))
                           ELSE bodyToSpMap}}
             : TRUE

StackBodySets == { {7}, {7, 8}, {8, 9}, {0, 7}, {} }

NoStackCall == [op |-> "idle", n |-> 0, clears |-> 0]

InitStack ==
    /\ files \in [superpixelToSegment : SuperpixelToSegmentFiles,
                  segmentToBody : SegmentToBodyFiles]
    /\ mapLoaded = FALSE /\ loads = 0
    /\ spToBodyMap = EmptyMap
    /\ rd = NoRead
    /\ labels = EmptyMap /\ format = SuperpixelNone
    /\ tileAt = {} /\ superpixelCache = Cache(maxItems)
    /\ stack1 = EmptyMap /\ stack2 = EmptyMap /\ bodySet = {}
    /\ spBounds = NoBounds
    /\ results = <<>>
    /\ call = NoStackCall
    /\ ret = NoRet

\* A further call is made while the program runs and the bound allows.
StackCallable == ~ret.fatal /\ call.n < MaxStackCalls

\* stack.ReadTxtMaps()
StackReadTxtMapsCall ==
    /\ StackCallable
    /\ \E r \in {StackReadTxtMaps(mapLoaded, spToBodyMap, loads, files)} :
         /\ mapLoaded' = r.mapLoaded /\ loads' = r.loads /\ spToBodyMap' = r.spToBodyMap
         /\ call' = [op |-> "ReadTxtMaps", n |-> call.n + 1, clears |-> call.clears]
         /\ ret' = [fatal |-> r.fatal]
    /\ UNCHANGED <<tileVars, files, rd, overlapVars>>

\* stack.SuperpixelToBody(s)
StackSuperpixelToBodyCall ==
    /\ StackCallable
    /\ \E s \in LookupKeys :
       \E r \in {StackReadTxtMaps(mapLoaded, spToBodyMap, loads, files)} :
         /\ mapLoaded' = r.mapLoaded /\ loads' = r.loads /\ spToBodyMap' = r.spToBodyMap
         /\ call' = [op |-> "SuperpixelToBody", s |-> s, n |-> call.n + 1,
                     clears |-> call.clears]
         /\ ret' = IF r.fatal THEN [fatal |-> TRUE]
                   ELSE [fatal |-> FALSE, bodyId |-> SuperpixelToBody(r.spToBodyMap, s)]
    /\ UNCHANGED <<tileVars, files, rd, overlapVars>>

\* stack.GetSuperpixelToBodyMap()
StackGetSuperpixelToBodyMapCall ==
    /\ StackCallable
    /\ \E r \in {StackReadTxtMaps(mapLoaded, spToBodyMap, loads, files)} :
         /\ mapLoaded' = r.mapLoaded /\ loads' = r.loads /\ spToBodyMap' = r.spToBodyMap
         /\ call' = [op |-> "GetSuperpixelToBodyMap", n |-> call.n + 1,
                     clears |-> call.clears]
         /\ ret' = IF r.fatal THEN [fatal |-> TRUE]
                   ELSE [fatal |-> FALSE, spToBodyMap |-> r.spToBodyMap]
    /\ UNCHANGED <<tileVars, files, rd, overlapVars>>

\* stack.GetBodyToSuperpixelsMap(bodies)
StackGetBodyToSuperpixelsMapCall ==
    /\ StackCallable
    /\ \E bodies \in StackBodySets :
       \E r \in {StackReadTxtMaps(mapLoaded, spToBodyMap, loads, files)} :
         /\ mapLoaded' = r.mapLoaded /\ loads' = r.loads /\ spToBodyMap' = r.spToBodyMap
         /\ call' = [op |-> "GetBodyToSuperpixelsMap", bodySet |-> bodies,
                     n |-> call.n + 1, clears |-> call.clears]
         /\ IF r.fatal
            THEN ret' = [fatal |-> TRUE]
            ELSE \E order \in KeyOrders(r.spToBodyMap) :
                   ret' = [fatal |-> FALSE,
                           bodyToSpMap |-> BodyToSpLists(r.spToBodyMap, bodies, order, 1,
                                                         EmptyMap)]
    /\ UNCHANGED <<tileVars, files, rd, overlapVars>>

\* stack.ClearTxtMaps()
StackClearTxtMapsCall ==
    /\ StackCallable
    /\ \E r \in {StackClearTxtMaps(mapLoaded, spToBodyMap)} :
         /\ mapLoaded' = r.mapLoaded /\ spToBodyMap' = r.spToBodyMap
         /\ call' = [op |-> "ClearTxtMaps", n |-> call.n + 1, clears |-> call.clears + 1]
         /\ ret' = [fatal |-> FALSE]
    /\ UNCHANGED <<tileVars, files, loads, rd, overlapVars>>

NextStack ==
    \/ StackReadTxtMapsCall
    \/ StackSuperpixelToBodyCall
    \/ StackGetSuperpixelToBodyMapCall
    \/ StackGetBodyToSuperpixelsMapCall
    \/ StackClearTxtMapsCall

SpecStack == InitStack /\ [][NextStack]_vars

(***************************************************************************)
(* C11: on one stack handle, as long as ClearTxtMaps has not been called,  *)
(* the remap tables are read from disk exactly once: a handle with the map *)
(* loaded has made one load, and no later call of ReadTxtMaps,             *)
(* SuperpixelToBody, GetSuperpixelToBodyMap or GetBodyToSuperpixelsMap     *)
(* loads again or changes the composed map.                                *)
(***************************************************************************)
C11_LoadedOnce ==
    /\ []((mapLoaded /\ call.clears = 0) => loads = 1)
    /\ [][(mapLoaded /\ call'.op # "ClearTxtMaps")
             => (mapLoaded' /\ loads' = loads /\ spToBodyMap' = spToBodyMap)]_vars

\* Three calls after the loading one, none of them ClearTxtMaps.
C11_Witness ==
    /\ call.n = MaxStackCalls /\ call.clears = 0
    /\ call.op = "SuperpixelToBody" /\ ~ret.fatal
    /\ mapLoaded /\ loads = 1
    /\ <<0, 1>> \in DOMAIN spToBodyMap

\* The list the returned map holds for body b; a body without key reads as
\* the nil list.
ListOf(b) == IF b \in DOMAIN ret.bodyToSpMap THEN ret.bodyToSpMap[b] ELSE <<>>

(***************************************************************************)
(* C14: GetBodyToSuperpixelsMap(bodySet) returns a map whose keys all are  *)
(* members of bodySet; for each body of bodySet its list holds exactly the *)
(* superpixels the composed table maps to that body, each once; no list    *)
(* holds a superpixel of a body outside bodySet; and the composed table is *)
(* still the composition of the two files.                                 *)
(***************************************************************************)
C14_InverseIndex ==
    (call.op = "GetBodyToSuperpixelsMap" /\ ~ret.fatal) =>
      /\ DOMAIN ret.bodyToSpMap \subseteq call.bodySet
      /\ \A b \in call.bodySet :
            /\ {ListOf(b)[i] : i \in 1..Len(ListOf(b))}
                 = {sp \in DOMAIN spToBodyMap : spToBodyMap[sp] = b}
            /\ \A i, j \in 1..Len(ListOf(b)) : ListOf(b)[i] = ListOf(b)[j] => i = j
      /\ \A b \in DOMAIN ret.bodyToSpMap :
            \A i \in 1..Len(ret.bodyToSpMap[b]) :
               /\ ret.bodyToSpMap[b][i] \in DOMAIN spToBodyMap
               /\ spToBodyMap[ret.bodyToSpMap[b][i]] \in call.bodySet
      /\ spToBodyMap = ReadTxtMaps(files).map

\* bodySet {8, 9} on the table (0,1)->7, (0,2)->8, (1,1)->0: body 8 has its
\* one superpixel, body 9 has no key, the superpixel of body 7 is in no list.
C14_Witness ==
    /\ call.op = "GetBodyToSuperpixelsMap" /\ ~ret.fatal
    /\ call.bodySet = {8, 9}
    /\ DOMAIN ret.bodyToSpMap = {8}
    /\ ret.bodyToSpMap[8] = << <<0, 2>> >>
    /\ DOMAIN spToBodyMap = {<<0, 1>>, <<0, 2>>, <<1, 1>>}
    /\ spToBodyMap[<<0, 1>>] = 7

(***************************************************************************)
(* The ring enumeration on its own: calls of Point2d.PixelsAtRadius.       *)
(***************************************************************************)
GridMax == 10          \* the largest maxX and maxY of a call
MaxRadius == 2         \* the largest radius of a call

\* <<maxX, maxY>> of a call: a square and a flat rectangle.
RingMaxima == { <<GridMax, GridMax>>, <<GridMax, GridMax - 3>> }

InitRing ==
    /\ call \in {c \in {[op |-> "PixelsAtRadius", p |-> <<x, y>>, radius |-> r,
                           maxX |-> mx[1], maxY |-> mx[2], done |-> FALSE] :
                              x \in 0..GridMax, y \in 0..GridMax, r \in 0..MaxRadius,
                              mx \in RingMaxima} :
                     c.p[1] <= c.maxX /\ c.p[2] <= c.maxY}
    /\ ret = NoRet
    /\ labels = EmptyMap /\ format = SuperpixelNone
    /\ tileAt = {} /\ superpixelCache = Cache(maxItems)
    /\ files = [superpixelToSegment |-> <<>>, segmentToBody |-> <<>>]
    /\ mapLoaded = FALSE /\ loads = 0
    /\ spToBodyMap = EmptyMap
    /\ rd = NoRead
    /\ stack1 = EmptyMap /\ stack2 = EmptyMap /\ bodySet = {}
    /\ spBounds = NoBounds
    /\ results = <<>>

\* call.p.PixelsAtRadius(call.radius, call.maxX, call.maxY)
PixelsAtRadiusCall ==
    /\ call.op = "PixelsAtRadius" /\ ~call.done
    /\ call' = [call EXCEPT !.done = TRUE]
    /\ ret' = [fatal |-> FALSE,
               pixels |-> PixelsAtRadius(call.p, call.radius, call.maxX, call.maxY)]
    /\ UNCHANGED <<tileVars, files, mapLoaded, loads, spToBodyMap, rd, overlapVars>>

NextRing == PixelsAtRadiusCall

SpecRing == InitRing /\ [][NextRing]_vars

RingReturned == call.op = "PixelsAtRadius" /\ call.done

\* The points of [0,maxX]x[0,maxY] at Chebyshev distance exactly radius from
\* the center of the call.
ClippedRing ==
    {q \in (0..call.maxX) \X (0..call.maxY) : Chebyshev(call.p, q) = call.radius}

\* The whole ring of the call lies inside [0,maxX]x[0,maxY].
RingInside ==
    /\ call.p[1] - call.radius >= 0 /\ call.p[1] + call.radius <= call.maxX
    /\ call.p[2] - call.radius >= 0 /\ call.p[2] + call.radius <= call.maxY

(***************************************************************************)
(* C15: the points PixelsAtRadius returns are exactly the points of        *)
(* [0,maxX]x[0,maxY] at Chebyshev distance radius from the center, and     *)
(* radius 0 returns the list of the center alone.                          *)
(***************************************************************************)
C15_ClippedRing ==
    RingReturned =>
      /\ {ret.pixels[i] : i \in 1..Len(ret.pixels)} = ClippedRing
      /\ call.radius = 0 => ret.pixels = <<call.p>>

(***************************************************************************)
(* C16: for a radius above 0 PixelsAtRadius returns at most 8*radius       *)
(* points, fewer only when the ring is cut by the bounds, and exactly the  *)
(* 8*radius distinct perimeter points when the whole ring is inside.       *)
(***************************************************************************)
C16_AtMostEightPerRadius ==
    (RingReturned /\ call.radius > 0) =>
      /\ Len(ret.pixels) <= 8 * call.radius
      /\ Len(ret.pixels) < 8 * call.radius => ~RingInside
      /\ RingInside =>
           /\ Len(ret.pixels) = 8 * call.radius
           /\ \A i, j \in 1..Len(ret.pixels) : ret.pixels[i] = ret.pixels[j] => i = j
           /\ {ret.pixels[i] : i \in 1..Len(ret.pixels)} = ClippedRing

(***************************************************************************)
(* Tile paths on their own: calls of TileFilename.                         *)
(***************************************************************************)
MaxTile == 2           \* the largest tile row and column of a call

\* Slices of a call, on both sides of 10, 100 and 1000.
Slices == {0, 7, 42, 99, 100, 999, 1000, 1042, 1999, 2000, 12345}

InitPath ==
    /\ call \in [op : {"TileFilename"}, row : 0..MaxTile, col : 0..MaxTile,
                 slice : Slices, done : {FALSE}]
    /\ ret = NoRet
    /\ labels = EmptyMap /\ format = SuperpixelNone
    /\ tileAt = {} /\ superpixelCache = Cache(maxItems)
    /\ files = [superpixelToSegment |-> <<>>, segmentToBody |-> <<>>]
    /\ mapLoaded = FALSE /\ loads = 0
    /\ spToBodyMap = EmptyMap
    /\ rd = NoRead
    /\ stack1 = EmptyMap /\ stack2 = EmptyMap /\ bodySet = {}
    /\ spBounds = NoBounds
    /\ results = <<>>

\* TileFilename(call.row, call.col, call.slice)
TileFilenameCall ==
    /\ call.op = "TileFilename" /\ ~call.done
    /\ call' = [call EXCEPT !.done = TRUE]
    /\ ret' = [fatal |-> FALSE, filename |-> TileFilename(call.row, call.col, call.slice)]
    /\ UNCHANGED <<tileVars, files, mapLoaded, loads, spToBodyMap, rd, overlapVars>>

NextPath == TileFilenameCall

SpecPath == InitPath /\ [][NextPath]_vars

\* The decimal numeral of n >= 0, digit by digit.
RECURSIVE Decimal(_)
Decimal(n) ==
    LET digit == <<"0", "1", "2", "3", "4", "5", "6", "7", "8", "9">>[(n % 10) + 1]
    IN IF n < 10 THEN digit ELSE Decimal(n \div 10) \o digit

\* The numeral of n, with zeros in front up to `width` characters.
RECURSIVE ZeroPadded(_, _)
ZeroPadded(numeral, width) ==
    IF Len(numeral) >= width THEN numeral ELSE ZeroPadded("0" \o numeral, width)

\* tiles/1024/0/<row>/<col>/s/
TileDirectory ==
    "tiles/1024/0/" \o Decimal(call.row) \o "/" \o Decimal(call.col) \o "/s/"

(***************************************************************************)
(* C17: TileFilename(row, col, slice) is                                   *)
(* tiles/1024/0/<row>/<col>/s/<slice, zero-padded to 3 digits>.png for a   *)
(* slice below 1000 and                                                    *)
(* tiles/1024/0/<row>/<col>/s/<floor(slice/1000)*1000>/<slice>.png from    *)
(* slice 1000 on; slice 42 gives .../s/042.png and slice 1042 gives        *)
(* .../s/1000/1042.png.                                                    *)
(***************************************************************************)
C17_TileFilename ==
    (call.op = "TileFilename" /\ call.done) =>
      /\ call.slice < 1000 =>
           ret.filename = TileDirectory \o ZeroPadded(Decimal(call.slice), 3) \o ".png"
      /\ call.slice >= 1000 =>
           ret.filename = TileDirectory \o Decimal((call.slice \div 1000) * 1000) \o "/"
                            \o Decimal(call.slice) \o ".png"
      /\ (call.row = 1 /\ call.col = 2 /\ call.slice = 42) =>
           ret.filename = "tiles/1024/0/1/2/s/042.png"
      /\ (call.row = 1 /\ call.col = 2 /\ call.slice = 1042) =>
           ret.filename = "tiles/1024/0/1/2/s/1000/1042.png"

\* Slice 1000, the first of the nested shape.
C17_Witness ==
    /\ call.op = "TileFilename" /\ call.done
    /\ call.row = 0 /\ call.col = 1 /\ call.slice = 1000
    /\ ret.filename = "tiles/1024/0/0/1/s/1000/1000.png"

(***************************************************************************)
(* Label decoding on its own: calls of GetSuperpixelId on one pixel.       *)
(***************************************************************************)
\* Byte values of a colour channel.
ByteSamples == {0, 1, 2, 128, 255}

\* Values of a 16-bit grayscale pixel.
GraySamples == {0, 1, 255, 256, 258, 65535}

\* What a tile stores at the pixel, by format: three bytes of an RGBA pixel
\* for a 24-bit stack, a gray value otherwise.
PixelCalls ==
    {[op |-> "GetSuperpixelId", format |-> Superpixel24Bits, x |-> 3, y |-> 4,
      stored |-> r + 256 * g + 65536 * b, done |-> FALSE] :
         r \in ByteSamples, g \in ByteSamples, b \in ByteSamples}
    \cup
    {[op |-> "GetSuperpixelId", format |-> f, x |-> 3, y |-> 4,
      stored |-> v, done |-> FALSE] :
         f \in {Superpixel16Bits, SuperpixelNone}, v \in GraySamples}

InitPixel ==
    /\ call \in PixelCalls
    /\ labels = [xy \in {<<call.x, call.y>>} |-> call.stored]
    /\ format = call.format
    /\ ret = NoRet
    /\ tileAt = {} /\ superpixelCache = Cache(maxItems)
    /\ files = [superpixelToSegment |-> <<>>, segmentToBody |-> <<>>]
    /\ mapLoaded = FALSE /\ loads = 0
    /\ spToBodyMap = EmptyMap
    /\ rd = NoRead
    /\ stack1 = EmptyMap /\ stack2 = EmptyMap /\ bodySet = {}
    /\ spBounds = NoBounds
    /\ results = <<>>

\* GetSuperpixelId(superpixels, call.x, call.y, format) on the decoded tile.
GetSuperpixelIdCall ==
    /\ call.op = "GetSuperpixelId" /\ ~call.done
    /\ call' = [call EXCEPT !.done = TRUE]
    /\ ret' = [fatal |-> FALSE,
               id |-> GetSuperpixelId(TileImage(labels, format), call.x, call.y, format)]
    /\ UNCHANGED <<tileVars, files, mapLoaded, loads, spToBodyMap, rd, overlapVars>>

NextPixel == GetSuperpixelIdCall

SpecPixel == InitPixel /\ [][NextPixel]_vars

\* The colour of the pixel of the call.
PixelColour == At(TileImage(labels, format), call.x, call.y)

(***************************************************************************)
(* C18: on a 24-bit stack GetSuperpixelId returns red + 256*green +        *)
(* 65536*blue of the pixel, which is below 2^24 and is the label whose     *)
(* three bytes the pixel stores; on a 16-bit stack it returns the gray     *)
(* value of the pixel.                                                     *)
(***************************************************************************)
C18_DecodedLabel ==
    (call.op = "GetSuperpixelId" /\ call.done) =>
      /\ format = Superpixel24Bits =>
           /\ ret.id = PixelColour.R + 256 * PixelColour.G + 65536 * PixelColour.B
           /\ ret.id = call.stored
           /\ ret.id < 16777216
      /\ format = Superpixel16Bits =>
           /\ ret.id = PixelColour.Y
           /\ ret.id = call.stored

\* Red 2, green 1, blue 128: three different bytes.
C18_Witness ==
    /\ call.op = "GetSuperpixelId" /\ call.done
    /\ format = Superpixel24Bits
    /\ PixelColour.R = 2 /\ PixelColour.G = 1 /\ PixelColour.B = 128
    /\ ret.id = 8388866

(***************************************************************************)
(* Tile files of a base stack rooted at "base" and of an exported stack    *)
(* rooted at "exported" whose Base is that base stack, and calls of        *)
(* ReadSuperpixelTile on either.                                           *)
(***************************************************************************)
MaxReads == 3          \* ReadSuperpixelTile calls in one behaviour

\* relTilePath of a call.
RelTilePaths == {TileFilename(0, 0, 0), TileFilename(0, 1, 1042)}

\* The stacks a call is made on: type, root, root of the Base.
TiledStacks == { [kind |-> "BaseStack", root |-> "base", base |-> "base"],
                 [kind |-> "ExportedStack", root |-> "exported", base |-> "base"] }

NoTileCall == [op |-> "idle", n |-> 0]

InitTileFile ==
    /\ tileAt \in SUBSET ({"base", "exported"} \X RelTilePaths)
    /\ superpixelCache = Cache(maxItems)
    /\ call = NoTileCall
    /\ ret = NoRet
    /\ labels = EmptyMap /\ format = SuperpixelNone
    /\ files = [superpixelToSegment |-> <<>>, segmentToBody |-> <<>>]
    /\ mapLoaded = FALSE /\ loads = 0
    /\ spToBodyMap = EmptyMap
    /\ rd = NoRead
    /\ stack1 = EmptyMap /\ stack2 = EmptyMap /\ bodySet = {}
    /\ spBounds = NoBounds
    /\ results = <<>>

\* ReadSuperpixelTile(stack, relTilePath); log.Fatalln ends the program.
ReadSuperpixelTileCall ==
    /\ ~ret.fatal
    /\ call.n < MaxReads
    /\ \E stack \in TiledStacks, relTilePath \in RelTilePaths :
       \E r \in {ReadSuperpixelTile(stack.kind, stack.root, stack.base, relTilePath,
                                    tileAt, superpixelCache)} :
         /\ call' = [op |-> "ReadSuperpixelTile", kind |-> stack.kind, root |-> stack.root,
                     base |-> stack.base, relTilePath |-> relTilePath, n |-> call.n + 1]
         /\ ret' = [fatal |-> r.fatal, filename |-> r.filename, stats |-> r.stats]
         /\ superpixelCache' = r.cache
    /\ UNCHANGED <<labels, format, tileAt, files, mapLoaded, loads, spToBodyMap, rd,
                   overlapVars>>

NextTileFile == ReadSuperpixelTileCall

SpecTileFile == InitTileFile /\ [][NextTileFile]_vars

\* The tile of the call at the stack's own root, and at the root of its base.
OwnTile == <<call.root, call.relTilePath>>

BaseTile == <<call.base, call.relTilePath>>

(***************************************************************************)
(* C19: ReadSuperpixelTile on an exported stack returns the tile of the    *)
(* stack's own root when it is there, the base stack's tile when it is     *)
(* absent at the own root and present in the base, and ends the program    *)
(* when it is absent at both; on a base stack an absent tile ends the      *)
(* program after the one look at the stack's root.                         *)
(***************************************************************************)
C19_OwnTileThenBase ==
    call.op = "ReadSuperpixelTile" =>
      /\ call.kind = "ExportedStack" =>
           /\ OwnTile \in tileAt => (~ret.fatal /\ ret.filename = OwnTile)
           /\ (OwnTile \notin tileAt /\ BaseTile \in tileAt)
                => (~ret.fatal /\ ret.filename = BaseTile)
           /\ (OwnTile \notin tileAt /\ BaseTile \notin tileAt) => ret.fatal
      /\ call.kind = "BaseStack" =>
           /\ OwnTile \in tileAt => (~ret.fatal /\ ret.filename = OwnTile)
           /\ OwnTile \notin tileAt => (ret.fatal /\ ret.stats = <<OwnTile>>)

\* A third call, on the exported stack, for a tile only the base has, after a
\* call that read a tile of the exported stack's own root.
C19_Witness ==
    /\ call.op = "ReadSuperpixelTile" /\ call.n = MaxReads
    /\ call.kind = "ExportedStack"
    /\ OwnTile \notin tileAt /\ BaseTile \in tileAt
    /\ ~ret.fatal /\ ret.filename = BaseTile
    /\ \E k \in DOMAIN superpixelCache.dataMap : k[1] = "exported"

(***************************************************************************)
(* C20: when the label at an in-bounds point is 0, GetBodyOfLocation       *)
(* returns BodyId 0 with superpixel (slice, 0), does not end the program,  *)
(* and does not consult the remap table: the table is not loaded by the    *)
(* call, whatever row it has for (slice, 0).                               *)
(***************************************************************************)
C20_ZeroSuperpixel ==
    (/\ call.op = "GetBodyOfLocation"
     /\ Include(StackBounds, call.pt)
     /\ StoredLabel(RasterXY(call.pt)) = 0)
    => /\ ~ret.fatal
       /\ ret.bodyId = 0
       /\ ret.superpixel = <<call.pt[3], 0>>
       /\ ~mapLoaded /\ loads = 0 /\ spToBodyMap = EmptyMap

\* A zero pixel of slice 0 on a stack whose table maps (0,0) to body 7.
C20_Witness ==
    /\ call.op = "GetBodyOfLocation"
    /\ call.pt = <<10, 1013, 0>>
    /\ StoredLabel(RasterXY(call.pt)) = 0
    /\ TableBody(<<0, 0>>) = 7
    /\ ret.bodyId = 0 /\ ~ret.fatal

(***************************************************************************)
(* C21: GetNearestBodyOfLocation reads labels only on the rings of radius  *)
(* 0..5 around the query's tile position, and every pixel it reads has     *)
(* tile-local x and y in 0..TileSize-1: none lies outside the tile raster. *)
(***************************************************************************)
C21_ReadsInsideTile ==
    NearestReturned =>
        \A e \in ret.reads :
            /\ e.radius \in 0..(checkRadius - 1)
            /\ Chebyshev(e.voxel, RasterXY(call.pt)) = e.radius
            /\ InTile(e.voxel)

(***************************************************************************)
(* The cache on its own: Store and Retrieve calls on a cache made by       *)
(* Cache(cacheType, maxSize).  call.log lists the calls made so far.       *)
(***************************************************************************)
MaxSize == 2           \* the largest maxSize of a cache
MaxCacheOps == 4       \* the most calls made on one cache

CacheKeys == {"a", "b", "c"}

InitCache ==
    /\ superpixelCache \in {Cache(maxSize) : maxSize \in 1..MaxSize}
    /\ call = [op |-> "idle", log |-> <<>>]
    /\ ret = NoRet
    /\ labels = EmptyMap /\ format = SuperpixelNone
    /\ tileAt = {}
    /\ files = [superpixelToSegment |-> <<>>, segmentToBody |-> <<>>]
    /\ mapLoaded = FALSE /\ loads = 0
    /\ spToBodyMap = EmptyMap
    /\ rd = NoRead
    /\ stack1 = EmptyMap /\ stack2 = EmptyMap /\ bodySet = {}
    /\ spBounds = NoBounds
    /\ results = <<>>

\* cache.Store(key, data)
StoreCall ==
    /\ Len(call.log) < MaxCacheOps
    /\ \E key \in CacheKeys :
         /\ superpixelCache' = Store(superpixelCache, key)
         /\ call' = [op |-> "Store", key |-> key,
                     log |-> Append(call.log, [op |-> "Store", key |-> key, found |-> TRUE])]
         /\ ret' = NoRet
    /\ UNCHANGED <<labels, format, tileAt, files, mapLoaded, loads, spToBodyMap, rd,
                   overlapVars>>

\* cache.Retrieve(key)
RetrieveCall ==
    /\ Len(call.log) < MaxCacheOps
    /\ \E key \in CacheKeys :
       \E r \in {Retrieve(superpixelCache, key)} :
         /\ superpixelCache' = r.cache
         /\ call' = [op |-> "Retrieve", key |-> key,
                     log |-> Append(call.log,
                                    [op |-> "Retrieve", key |-> key, found |-> r.found])]
         /\ ret' = [fatal |-> FALSE, found |-> r.found]
    /\ UNCHANGED <<labels, format, tileAt, files, mapLoaded, loads, spToBodyMap, rd,
                   overlapVars>>

NextCache == StoreCall \/ RetrieveCall

SpecCache == InitCache /\ [][NextCache]_vars

\* The keys the cache holds.
Held == DOMAIN superpixelCache.dataMap

\* The place in the log of the last access of key k: its last Store or
\* successful Retrieve (0 when there is none).
LastAccess(log, k) ==
    LET at == {i \in 1..Len(log) : log[i].key = k /\ log[i].found}
    IN IF at = {} THEN 0 ELSE Last(at)

(***************************************************************************)
(* C23: after any sequence of Store and Retrieve calls on a cache of       *)
(* capacity maxSize >= 1 the cache holds at most maxSize entries.          *)
(***************************************************************************)
C23_AtMostMaxSize ==
    superpixelCache.maxItems >= 1 => Cardinality(Held) <= superpixelCache.maxItems

\* A full cache after a Store that had to delete an entry.
C23_Witness ==
    /\ call.op = "Store"
    /\ Cardinality(Held) = superpixelCache.maxItems
    /\ Cardinality({call.log[i].key : i \in {j \in 1..Len(call.log) :
                                               call.log[j].op = "Store"}})
         > superpixelCache.maxItems

MaxTileIndex == 2      \* the largest tile row and column a point falls in

\* Offsets of a point in its tile, and raster heights (a full tile, and a
\* tile of a stack whose height is not a multiple of TileSize).
TileOffsets == {0, 1, 599, 600, TileSize - 1}

RasterHeights == {TileSize, 600}

TileCoords == {t * TileSize + o : t \in 0..MaxTileIndex, o \in TileOffsets}

\* In a tile of `height` rows the stack has no point at or above row `height`.
InitTilePt ==
    /\ call \in {c \in [op : {"GetSuperpixelTilePt"}, pt : TileCoords \X TileCoords \X {0, 1},
                        height : RasterHeights, done : {FALSE}] :
                    c.pt[2] % TileSize < c.height}
    /\ ret = NoRet
    /\ labels = EmptyMap /\ format = Superpixel16Bits
    /\ tileAt = {Join("base", TileFilename(row, col, z)) :
                    row \in 0..MaxTileIndex, col \in 0..MaxTileIndex, z \in {0, 1}}
    /\ superpixelCache = Cache(maxItems)
    /\ files = [superpixelToSegment |-> <<>>, segmentToBody |-> <<>>]
    /\ mapLoaded = FALSE /\ loads = 0
    /\ spToBodyMap = EmptyMap
    /\ rd = NoRead
    /\ stack1 = EmptyMap /\ stack2 = EmptyMap /\ bodySet = {}
    /\ spBounds = NoBounds
    /\ results = <<>>

\* GetSuperpixelTilePt(stack, call.pt): the tile is read through the cache,
\* the point is placed in it.
GetSuperpixelTilePtCall ==
    /\ call.op = "GetSuperpixelTilePt" /\ ~call.done
    /\ \E t \in {TilePt(call.pt, call.height)} :
       \E r \in {ReadSuperpixelTile("BaseStack", "base", "base",
                                    TileFilename(t.row, t.col, call.pt[3]),
                                    tileAt, superpixelCache)} :
         /\ call' = [call EXCEPT !.done = TRUE]
         /\ ret' = [fatal |-> r.fatal, tilePt |-> t.tilePt, row |-> t.row, col |-> t.col,
                    filename |-> r.filename]
         /\ superpixelCache' = r.cache
    /\ UNCHANGED <<labels, format, tileAt, files, mapLoaded, loads, spToBodyMap, rd,
                   overlapVars>>

NextTilePt == GetSuperpixelTilePtCall

SpecTilePt == InitTilePt /\ [][NextTilePt]_vars

(***************************************************************************)
(* C22: for an in-bounds point (x, y, z) GetSuperpixelTilePt gives         *)
(* tileX = x mod TileSize, tileY = rasterHeight - (y mod TileSize) - 1,    *)
(* column x div TileSize and row y div TileSize; in a full 1024-row tile   *)
(* both coordinates lie in 0..1023; two points of one tile with different  *)
(* y have different tileY.                                                 *)
(***************************************************************************)
C22_TilePoint ==
    (call.op = "GetSuperpixelTilePt" /\ call.done) =>
        /\ ~ret.fatal
        /\ ret.tilePt[1] = call.pt[1] % TileSize
        /\ ret.tilePt[2] = call.height - (call.pt[2] % TileSize) - 1
        /\ ret.tilePt[3] = call.pt[3]
        /\ ret.col = call.pt[1] \div TileSize
        /\ ret.row = call.pt[2] \div TileSize
        /\ ret.filename = <<"base", TileFilename(ret.row, ret.col, call.pt[3])>>
        /\ call.height = TileSize =>
              (ret.tilePt[1] \in 0..(TileSize - 1) /\ ret.tilePt[2] \in 0..(TileSize - 1))
        /\ \A x, y \in TileCoords :
              (/\ y % TileSize < call.height
               /\ x \div TileSize = ret.col /\ y \div TileSize = ret.row
               /\ y # call.pt[2])
              => TilePt(<<x, y, call.pt[3]>>, call.height).tilePt[2] # ret.tilePt[2]

\* A point of the last row of a full tile that is neither in tile row 0 nor
\* in tile column 0: its raster row is 0.
C22_Witness ==
    /\ call.op = "GetSuperpixelTilePt" /\ call.done
    /\ call.height = TileSize
    /\ call.pt = <<TileSize + 1, 2 * TileSize - 1, 1>>
    /\ ret.tilePt = <<1, 0, 1>>
    /\ ret.row = 1 /\ ret.col = 1

(***************************************************************************)
(* analysis.go: CreatePsdTracing on an exported stack that has no tile     *)
(* files of its own (its tiles are those of the base stack).  call.Data is *)
(* the assignment's synapses, call.annotations the exported stack's body   *)
(* annotations, stack1 the base stack's superpixel-to-body table.          *)
(***************************************************************************)
Orphan == -2
Leaves == -1
MinAnchor == 1

MaxPsds == 2           \* the most PSDs of a synapse

\* bodyNote.GetTracingResult(bodyId) for a note that names an anchor, an
\* orphan, or neither.
GetTracingResult(bodyNote, bodyId) ==
    IF bodyNote = "anchor" THEN bodyId
    ELSE IF bodyNote = "orphan" THEN Orphan
    ELSE Leaves

\* The closure addTracedBody: the tracing appended to the PSD, and whether
\* the body enters psdBodies.
addTracedBody(bodyId, bodyNote, radius) ==
    LET tracingResult == GetTracingResult(bodyNote, bodyId)
    IN [Result |-> tracingResult,
        ExportedBody |-> IF tracingResult >= MinAnchor THEN bodyId ELSE 0,
        UsedBodyRadius |-> radius,
        inPsdBodies |-> tracingResult > MinAnchor]

\* One turn of the loop over the synapses: the T-bar, the first pass over
\* the PSDs, the pass over the ambiguous PSDs.  m is the exported stack's
\* table, mb the base stack's.
TraceSynapse(syn, lab, fmt, m, mb, annotations) ==
    CHOOSE out \in UNION
      {{LET ambiguous == {p \in DOMAIN first : first[p].bodyId = 0}
            bodyOf == [p \in DOMAIN first |->
                          IF p \in ambiguous THEN near[p].bodyId ELSE first[p].bodyId]
        IN [fatal |-> \/ tbar.fatal
                      \/ \E p \in DOMAIN first : first[p].fatal \/ base[p].fatal,
            lookup |-> \/ tbar.lookup
                       \/ \E p \in DOMAIN first : first[p].lookup
                       \/ \E p \in ambiguous : near[p].lookup,
            Tbar |-> [body |-> tbar.bodyId,
                      UsedBodyRadius |-> IF tbar.radius > 0 THEN tbar.radius ELSE 0],
            Psds |-> [p \in DOMAIN first |->
                        [ambiguous |-> p \in ambiguous,
                         bodyId |-> bodyOf[p],
                         excludeBodies |-> IF p \in ambiguous THEN {tbar.bodyId} ELSE {},
                         avoidBodies |->
                             IF p \in ambiguous
                             THEN {first[q].bodyId : q \in DOMAIN first \ ambiguous}
                             ELSE {},
                         BodyIssue |-> p \in ambiguous /\ bodyOf[p] = 0,
                         Tracings |->
                             IF bodyOf[p] # 0 /\ bodyOf[p] \in DOMAIN annotations
                             THEN << addTracedBody(bodyOf[p], annotations[bodyOf[p]],
                                                   IF p \in ambiguous THEN near[p].radius
                                                   ELSE 0) >>
                             ELSE <<>>]],
            psdsChanged |-> Cardinality({p \in DOMAIN first :
                                            first[p].bodyId # base[p].bodyId}),
            noBodyAnnotated |-> Cardinality({p \in DOMAIN first :
                                                bodyOf[p] # 0
                                                /\ bodyOf[p] \notin DOMAIN annotations})] :
          \* the second pass: excludeBodies = {tbarBody}, curPsdBodies = the
          \* bodies the first pass found
          near \in {[p \in 1..Len(syn.Psds) |->
                        IF first[p].bodyId = 0
                        THEN GetNearestBodyOfLocation(
                                 lab, fmt, m, syn.Psds[p], {tbar.bodyId},
                                 {first[q].bodyId :
                                     q \in {n \in DOMAIN first : first[n].bodyId # 0}})
                        ELSE [fatal |-> FALSE, lookup |-> FALSE]] \o <<>>}} :
          tbar \in {GetNearestBodyOfLocation(lab, fmt, m, syn.Tbar, {}, {})},
          first \in {[p \in 1..Len(syn.Psds) |->
                         GetBodyOfLocation(lab, fmt, m, syn.Psds[p])] \o <<>>},
          base \in {[p \in 1..Len(syn.Psds) |->
                        GetBodyOfLocation(lab, fmt, mb, syn.Psds[p])] \o <<>>}}
      : TRUE

\* The ReadSuperpixelTile calls of one turn, in order: the T-bar's on the
\* exported stack; each PSD's on the exported and on the base stack; each
\* ambiguous PSD's on the exported stack.
TileReadsOf(syn, traced) ==
    LET exported(pt) == [kind |-> "ExportedStack", root |-> "exported", pt |-> pt]
        inBase(pt) == [kind |-> "BaseStack", root |-> "base", pt |-> pt]
        both == [i \in 1..(2 * Len(syn.Psds)) |->
                    IF i % 2 = 1 THEN exported(syn.Psds[(i + 1) \div 2])
                    ELSE inBase(syn.Psds[i \div 2])]
        again == SelectSeq([p \in 1..Len(syn.Psds) |-> [p |-> p, pt |-> syn.Psds[p]]],
                           LAMBDA x : traced.Psds[x.p].ambiguous)
    IN << exported(syn.Tbar) >> \o both
       \o [i \in 1..Len(again) |-> exported(again[i].pt)]

RECURSIVE TileReadsFrom(_, _, _)
TileReadsFrom(data, traced, s) ==
    IF s > Len(data) THEN <<>>
    ELSE TileReadsOf(data[s], traced[s]) \o TileReadsFrom(data, traced, s + 1)

RECURSIVE ReadTiles(_, _, _, _)
ReadTiles(reads, i, present, cache) ==
    IF i > Len(reads) THEN cache
    ELSE LET t == TilePt(reads[i].pt, TileSize)
             r == ReadSuperpixelTile(reads[i].kind, reads[i].root, "base",
                                     TileFilename(t.row, t.col, reads[i].pt[3]),
                                     present, cache)
         IN ReadTiles(reads, i + 1, present, r.cache)

\* CreatePsdTracing: the loop over tracing.Data and the counters after it.
CreatePsdTracing(data, lab, fmt, m, mb, annotations, present, cache) ==
    CHOOSE out \in
      {[fatal |-> \E s \in DOMAIN traced : traced[s].fatal,
        lookup |-> \E s \in DOMAIN traced : traced[s].lookup,
        synapses |-> traced,
        psdBodies |-> {b \in DOMAIN annotations :
                          \E s \in DOMAIN traced : \E p \in DOMAIN traced[s].Psds :
                              /\ traced[s].Psds[p].bodyId = b
                              /\ GetTracingResult(annotations[b], b) > MinAnchor},
        totalPsds |-> SumOver(DOMAIN traced, [s \in DOMAIN traced |-> Len(data[s].Psds)]),
        psdsChanged |-> SumOver(DOMAIN traced,
                                [s \in DOMAIN traced |-> traced[s].psdsChanged]),
        noBodyAnnotated |-> SumOver(DOMAIN traced,
                                    [s \in DOMAIN traced |-> traced[s].noBodyAnnotated]),
        cache |-> IF \E s \in DOMAIN traced : traced[s].fatal THEN cache
                  ELSE ReadTiles(TileReadsFrom(data, traced, 1), 1, present, cache)] :
          traced \in {[s \in 1..Len(data) |->
                         TraceSynapse(data[s], lab, fmt, m, mb, annotations)] \o <<>>}}
      : TRUE

\* Raster positions that may carry a nonzero label in this stack.
PsdPaint == { <<10, 10>>, <<11, 10>>, <<10, 12>> }

\* Stack points of raster (10,10), (11,10), (10,11) and (10,12) of tile
\* (0,0) of slice 0; for the T-bar also a point far from these and a point
\* above zmax.
PsdPts == { <<10, 1013, 0>>, <<11, 1013, 0>>, <<10, 1012, 0>>, <<10, 1011, 0>> }

TbarPts == { <<10, 1013, 0>>, <<10, 1011, 0>>, <<500, 500, 0>>, <<10, 1013, 2>> }

PsdLists == UNION {[1..n -> PsdPts] : n \in 1..MaxPsds}

\* Assignments of one synapse, and two of two synapses.
Assignments ==
    { << [Tbar |-> t, Psds |-> ps] >> : t \in TbarPts, ps \in PsdLists }
    \cup { << [Tbar |-> <<10, 1011, 0>>, Psds |-> << <<10, 1013, 0>> >>],
              [Tbar |-> <<10, 1013, 0>>, Psds |-> ps] >> :
                ps \in { << <<10, 1012, 0>> >>, << <<11, 1013, 0>> >> } }

\* Body annotations of the exported stack: the note of each annotated body.
Annotations == { (7 :> "anchor") @@ (8 :> "orphan"), (7 :> "leaves") }

PsdFiles == { RemapFiles(101, -1, 8), RemapFiles(-1, 100, 8) }

InitPsd ==
    /\ labels \in [PsdPaint -> Labels]
    /\ format = Superpixel24Bits
    /\ tileAt = StackTiles /\ superpixelCache = Cache(maxItems)
    /\ files \in PsdFiles
    /\ mapLoaded = FALSE /\ loads = 0
    /\ spToBodyMap = EmptyMap
    /\ rd = NoRead
    /\ stack1 \in {ReadTxtMaps(fs).map : fs \in {RemapFiles(101, -1, 8),
                                                  RemapFiles(100, -1, 8)}}
    /\ stack2 = EmptyMap /\ bodySet = {}
    /\ spBounds = NoBounds
    /\ results = <<>>
    /\ call \in [op : {"CreatePsdTracing"}, Data : Assignments,
                 annotations : Annotations, done : {FALSE}]
    /\ ret = NoRet

CreatePsdTracingCall ==
    /\ call.op = "CreatePsdTracing" /\ ~call.done
    /\ \E m \in {LoadedMap(mapLoaded, spToBodyMap, files)} :
       \E r \in {CreatePsdTracing(call.Data, labels, format, m.map, stack1,
                                   call.annotations, tileAt, superpixelCache)} :
         /\ call' = [call EXCEPT !.done = TRUE]
         /\ ret' = IF r.fatal \/ (r.lookup /\ m.fatal)
                   THEN [fatal |-> TRUE]
                   ELSE [fatal |-> FALSE, synapses |-> r.synapses,
                         psdBodies |-> r.psdBodies, totalPsds |-> r.totalPsds,
                         psdsChanged |-> r.psdsChanged,
                         noBodyAnnotated |-> r.noBodyAnnotated]
         /\ mapLoaded' = (mapLoaded \/ r.lookup)
         /\ loads' = IF r.lookup /\ ~mapLoaded THEN loads + 1 ELSE loads
         /\ spToBodyMap' = IF r.lookup THEN m.map ELSE spToBodyMap
         /\ superpixelCache' = r.cache
    /\ UNCHANGED <<labels, format, tileAt, files, rd, overlapVars>>

NextPsd == CreatePsdTracingCall

SpecPsd == InitPsd /\ [][NextPsd]_vars

\* Pixels of rings 0..5 around stack point pt, inside the tile, with a nonzero
\* label whose body is not in `excluded`.
CandidatesAt(pt, excluded) ==
    {xy \in DOMAIN labels :
        /\ labels[xy] # 0
        /\ InTile(xy)
        /\ Chebyshev(xy, RasterXY(pt)) < checkRadius
        /\ TableBody(<<pt[3], labels[xy]>>) \notin excluded}

PsdTraced == call.op = "CreatePsdTracing" /\ call.done /\ ~ret.fatal

(***************************************************************************)
(* C25: in CreatePsdTracing, within one synapse, every body already        *)
(* assigned to a sibling PSD (directly, or by an earlier nearest-body      *)
(* search) is in the avoid set passed to GetNearestBodyOfLocation for a    *)
(* later PSD; two ambiguous PSDs of a synapse get the same body only when  *)
(* no other non-excluded candidate lies within the radius cap; and no      *)
(* ambiguous PSD gets the T-bar's nonzero resolved body.                   *)
(***************************************************************************)
C25_SiblingsAvoided ==
    PsdTraced =>
      \A s \in DOMAIN ret.synapses :
        LET psds == ret.synapses[s].Psds
            tbarBody == ret.synapses[s].Tbar.body
        IN \A p \in DOMAIN psds :
             psds[p].ambiguous =>
               /\ \A q \in DOMAIN psds :
                     (psds[q].bodyId # 0 /\ (~psds[q].ambiguous \/ q < p))
                        => psds[q].bodyId \in psds[p].avoidBodies
               /\ \A q \in 1..(p - 1) :
                     (psds[q].ambiguous /\ psds[q].bodyId # 0
                      /\ psds[q].bodyId = psds[p].bodyId)
                        => CandidatesAt(call.Data[s].Psds[p],
                                        {tbarBody, psds[p].bodyId}) = {}
               /\ tbarBody # 0 => psds[p].bodyId # tbarBody

(***************************************************************************)
(* C26: whenever GetNearestBodyOfLocation returns a nonzero body,          *)
(* finalLocation is the pixel whose label resolved to the returned body,   *)
(* and it lies at Chebyshev distance equal to the returned radius from the *)
(* query's tile position; also when a pixel of an avoided body was seen    *)
(* before the pixel of the returned body.                                  *)
(***************************************************************************)
C26_FinalLocation ==
    (NearestReturned /\ ret.bodyId # 0) =>
        LET xy == <<ret.finalLocation[1], ret.finalLocation[2]>>
        IN /\ StoredLabel(xy) # 0
           /\ TableBody(<<call.pt[3], StoredLabel(xy)>>) = ret.bodyId
           /\ Chebyshev(xy, RasterXY(call.pt)) = ret.radius

(***************************************************************************)
(* C27: GetNearestBodyOfLocation returns BodyId 0 only with radius 6:      *)
(* whenever the returned radius is below 6 the returned body is nonzero,   *)
(* also when a nonzero label is missing from the remap table or maps to    *)
(* body 0.                                                                 *)
(***************************************************************************)
C27_ZeroOnlyAtCap ==
    NearestReturned => (ret.radius < checkRadius => ret.bodyId # 0)

(***************************************************************************)
(* raveler.go: SuperpixelToBodyMap.WriteTxtMaps into an empty directory,   *)
(* followed by ReadTxtMaps of that directory.  spToBodyMap is the map      *)
(* written; rd holds the segment map, the place of each writer goroutine,  *)
(* the lines each has handed to its bufio.Writer, and the number of        *)
(* receives the caller has made.                                           *)
(***************************************************************************)
NumWriteSp == 3        \* how many superpixels a written map may hold

defaultBufSize == 4096 \* size of the buffer bufio.NewWriter gives

WriteSpList == << <<0, 0>>, <<0, 1>>, <<1, 1>>, <<0, 2>>, <<1, 0>> >>

WriteSps == {WriteSpList[i] : i \in 1..MinCoord(NumWriteSp, Len(WriteSpList))}

\* Maps to write: a label-0 superpixel has body 0 or not.
WriteMaps ==
    UNION {[S -> {0, 7, 8}] : S \in SUBSET WriteSps}

\* The loop of makeSegmentMaps over the keys of m in `order`, from position i.
RECURSIVE makeSegmentMaps(_, _, _, _, _)
makeSegmentMaps(m, order, i, segmentMap, curSegment) ==
    IF i > Len(order) THEN segmentMap
    ELSE LET superpixel == order[i]
             segment == <<m[superpixel], superpixel[1]>>
         IN IF superpixel[2] = 0
            THEN makeSegmentMaps(m, order, i + 1,
                                 Put(segmentMap, <<0, superpixel[1]>>, 0), curSegment)
            ELSE IF segment \in DOMAIN segmentMap
            THEN makeSegmentMaps(m, order, i + 1, segmentMap, curSegment)
            ELSE makeSegmentMaps(m, order, i + 1,
                                 Put(segmentMap, segment, curSegment), curSegment + 1)

\* fmt.Fprintf(lineWriter, "%8d %8d ...\n", fields...): a number of fewer than
\* eight digits is padded with spaces on the left.
Fprintf8d(fields) ==
    [c |-> IF fields[1] < 10000000 THEN "space" ELSE "digit", f |-> fields, nl |-> TRUE]

\* What has reached the file when `lines`, of lineBytes bytes each, have been
\* written to a bufio.Writer that is never flushed: the buffer is passed on
\* each time it is full, so whole buffers only; the last line in the file
\* may be cut.
Unflushed(lines, lineBytes) ==
    LET bytes == ((Len(lines) * lineBytes) \div defaultBufSize) * defaultBufSize
        whole == bytes \div lineBytes
    IN SubSeq(lines, 1, whole)
       \o (IF bytes % lineBytes = 0 THEN <<>>
           ELSE << [c |-> lines[whole + 1].c, f |-> <<>>, nl |-> FALSE] >>)

NoWrite == [pc |-> "none"]

InitWrite ==
    /\ spToBodyMap \in WriteMaps
    /\ files = [superpixelToSegment |-> <<>>, segmentToBody |-> <<>>]
    /\ rd = NoWrite
    /\ call = [op |-> "idle", done |-> TRUE]
    /\ ret = NoRet
    /\ mapLoaded = FALSE /\ loads = 0
    /\ labels = EmptyMap /\ format = SuperpixelNone
    /\ tileAt = {} /\ superpixelCache = Cache(maxItems)
    /\ stack1 = EmptyMap /\ stack2 = EmptyMap /\ bodySet = {}
    /\ spBounds = NoBounds
    /\ results = <<>>

\* spToBodyMap.WriteTxtMaps(outputDir) up to the first receive: the segment
\* map is made and the two goroutines are started.
WriteTxtMapsCall ==
    /\ call.op = "idle"
    /\ \E order \in KeyOrders(spToBodyMap) :
         rd' = [pc |-> "writing",
                segmentMap |-> makeSegmentMaps(spToBodyMap, order, 1, EmptyMap, 1),
                at |-> <<"write", "write">>,
                written |-> << <<>>, <<>> >>,
                received |-> 0]
    /\ call' = [op |-> "WriteTxtMaps", done |-> FALSE]
    /\ UNCHANGED <<tileVars, files, mapLoaded, loads, spToBodyMap, overlapVars, ret>>

\* The first goroutine up to its send: a line for each superpixel; a
\* superpixel whose (body, slice) has no segment ends the program.
WriteSuperpixelToSegment ==
    /\ rd.pc = "writing" /\ rd.at[1] = "write"
    /\ ~ret.fatal
    /\ \E order \in KeyOrders(spToBodyMap) :
         LET found(sp) == <<spToBodyMap[sp], sp[1]>> \in DOMAIN rd.segmentMap
             lines == [i \in 1..Len(order) |->
                          Fprintf8d(<<order[i][1], order[i][2],
                                      IF found(order[i])
                                      THEN rd.segmentMap[<<spToBodyMap[order[i]],
                                                           order[i][1]>>]
                                      ELSE 0>>)]
         IN IF \A i \in 1..Len(order) : found(order[i])
            THEN /\ files' = [files EXCEPT !.superpixelToSegment = Unflushed(lines, 27)]
                 /\ rd' = [rd EXCEPT !.at[1] = "send", !.written[1] = lines]
                 /\ UNCHANGED <<call, ret>>
            ELSE /\ ret' = [fatal |-> TRUE]
                 /\ call' = [call EXCEPT !.done = TRUE]
                 /\ UNCHANGED <<files, rd>>
    /\ UNCHANGED <<tileVars, mapLoaded, loads, spToBodyMap, overlapVars>>

\* The second goroutine up to its send: a line for each segment.
WriteSegmentToBody ==
    /\ rd.pc = "writing" /\ rd.at[2] = "write"
    /\ ~ret.fatal
    /\ \E order \in KeyOrders(rd.segmentMap) :
         LET lines == [i \in 1..Len(order) |->
                          Fprintf8d(<<rd.segmentMap[order[i]], order[i][1]>>)]
         IN /\ files' = [files EXCEPT !.segmentToBody = Unflushed(lines, 18)]
            /\ rd' = [rd EXCEPT !.at[2] = "send", !.written[2] = lines]
    /\ UNCHANGED <<tileVars, mapLoaded, loads, spToBodyMap, overlapVars, call, ret>>

\* waitchan <- true of a writer meets one of the caller's two receives.
ReceiveWritten ==
    /\ rd.pc = "writing" /\ rd.received < 2
    /\ ~ret.fatal
    /\ \E i \in {1, 2} :
         /\ rd.at[i] = "send"
         /\ rd' = [rd EXCEPT !.at[i] = "done", !.received = @ + 1]
    /\ UNCHANGED <<tileVars, files, mapLoaded, loads, spToBodyMap, overlapVars, call, ret>>

\* After the second receive WriteTxtMaps returns.
WriteTxtMapsReturn ==
    /\ rd.pc = "writing" /\ rd.received = 2
    /\ ~ret.fatal
    /\ rd' = [rd EXCEPT !.pc = "returned"]
    /\ call' = [call EXCEPT !.done = TRUE]
    /\ UNCHANGED <<tileVars, files, mapLoaded, loads, spToBodyMap, overlapVars, ret>>

\* ReadTxtMaps(outputDir) after WriteTxtMaps has returned.
ReadBackCall ==
    /\ call.op = "WriteTxtMaps" /\ call.done /\ ~ret.fatal
    /\ \E r \in {ReadTxtMaps(files)} :
         /\ call' = [op |-> "ReadTxtMaps", done |-> TRUE]
         /\ ret' = [fatal |-> r.fatal, map |-> r.map]
    /\ UNCHANGED <<tileVars, files, mapLoaded, loads, spToBodyMap, rd, overlapVars>>

NextWrite ==
    \/ WriteTxtMapsCall
    \/ WriteSuperpixelToSegment
    \/ WriteSegmentToBody
    \/ ReceiveWritten
    \/ WriteTxtMapsReturn
    \/ ReadBackCall

SpecWrite == InitWrite /\ [][NextWrite]_vars

\* Every line of the file ends with '\n'.
Terminated(file) == \A i \in 1..Len(file) : file[i].nl

(***************************************************************************)
(* C28: for a superpixel-to-body map m in which every label-0 superpixel   *)
(* maps to body 0, once m.WriteTxtMaps(dir) has returned both files are    *)
(* complete (a line for each superpixel, a line for each segment, both     *)
(* writers joined) and ReadTxtMaps(dir) returns a map equal to m.          *)
(***************************************************************************)
C28_RoundTrip ==
    (/\ call.op \in {"WriteTxtMaps", "ReadTxtMaps"} /\ call.done /\ rd.pc = "returned"
     /\ \A sp \in DOMAIN spToBodyMap : sp[2] = 0 => spToBodyMap[sp] = 0)
    => /\ rd.at = <<"done", "done">>
       /\ Len(files.superpixelToSegment) = Cardinality(DOMAIN spToBodyMap)
       /\ Len(files.segmentToBody) = Cardinality(DOMAIN rd.segmentMap)
       /\ Terminated(files.superpixelToSegment) /\ Terminated(files.segmentToBody)
       /\ call.op = "ReadTxtMaps" => (~ret.fatal /\ ret.map = spToBodyMap)

\* The superpixels the source table maps to body b, and those of them the
\* target table lacks.
SourceSps(b) == {sp \in DOMAIN stack1 : stack1[sp] = b}

MissingSps(b) == {sp \in SourceSps(b) : sp \notin DOMAIN stack2}

(***************************************************************************)
(* C29: for every entry of the map OverlapAnalysis returns,                *)
(* 1 <= OverlapSize <= MaxOverlap, and the votes summed over all target    *)
(* bodies plus the number of the body's superpixels missing from the       *)
(* target table equal MaxOverlap; each source superpixel casts at most one *)
(* vote.                                                                   *)
(***************************************************************************)
C29_OverlapBounds ==
    OverlapReturned =>
      \A b \in DOMAIN ret.matchingMap :
        LET tally == OverlapsOf(GetBodyToSuperpixelsMap(stack1, bodySet), stack2, b)
        IN /\ 1 <= ret.matchingMap[b].OverlapSize
           /\ ret.matchingMap[b].OverlapSize <= ret.matchingMap[b].MaxOverlap
           /\ SumOver(TargetBodies, [t \in TargetBodies |-> Votes(b, t)])
                + Cardinality(MissingSps(b)) = ret.matchingMap[b].MaxOverlap
           /\ SumOver(DOMAIN tally, tally) = SumOver(TargetBodies,
                                                     [t \in TargetBodies |-> Votes(b, t)])
           /\ \A sp \in SourceSps(b) :
                Cardinality({t \in DOMAIN tally : sp \in DOMAIN stack2 /\ stack2[sp] = t}) <= 1

\* Body 5 has three superpixels: one votes for body 7, one for body 8, one is
\* missing from the target table.
C29_Witness ==
    /\ OverlapReturned
    /\ 5 \in DOMAIN ret.matchingMap
    /\ Votes(5, 7) = 1 /\ Votes(5, 8) = 1
    /\ Cardinality(MissingSps(5)) = 1
    /\ ret.matchingMap[5].OverlapSize = 1
    /\ ret.matchingMap[5].MaxOverlap = 3

\* The well-formed data lines of the file of loader i: lines of numbers with
\* a number for each Sscanf verb, with or without a final '\n'.
WellFormed(i) ==
    {j \in 1..Len(FileOf(i)) :
        FileOf(i)[j].c = "digit" /\ Len(FileOf(i)[j].f) >= NeedOf(i)}

\* The table loader i has filled.
TableOf(i) == IF i = 1 THEN rd.spToBodyMap ELSE rd.segmentToBodyMap

(***************************************************************************)
(* C30: every well-formed data line of a remap file contributes its entry  *)
(* to the table loaded from the file, an unterminated last line included:  *)
(* when the load has returned, the key of every such line is in the table, *)
(* with the value of the last such line for that key.                      *)
(***************************************************************************)
C30_EveryDataLine ==
    rd.pc = "returned" =>
      \A i \in {1, 2} :
        \A j \in WellFormed(i) :
          LET key == LineKey(FileOf(i)[j], NeedOf(i))
          IN /\ key \in DOMAIN TableOf(i)
             /\ (\A k \in WellFormed(i) :
                    (k > j => LineKey(FileOf(i)[k], NeedOf(i)) # key))
                  => TableOf(i)[key] = LineValue(FileOf(i)[j], NeedOf(i))

====
